---------------------------- MODULE Spec2Model ----------------------------
(***************************************************************************)
(* State-machine model of the natural-language-to-SQL engine of            *)
(* mysql-hub-mcp (src/app_mcp_server, src/server).                         *)
(*                                                                         *)
(* Text is modelled as a sequence of tokens.  A token stands for a run of  *)
(* characters that the code's string tests treat as a unit:                *)
(*   "FENCE"    the three backticks of a markdown fence                    *)
(*   "sql" "mysql" "json"   lower-case words (language tags)               *)
(*   "NL" "SP"  a newline, a space (the only whitespace)                   *)
(*   "SELECT" "FROM" "select" "from"   SQL keywords, upper and lower case  *)
(*   "*" "1;" "orders;" "hello"   text holding no keyword and no phrase    *)
(*   "REFUSAL"  one of the phrases of error_indicators                     *)
(*   "<think>" "</think>"   the scratchpad markers                         *)
(*   "{" "JSONNAME"   an opening brace, and the text {"name"               *)
(***************************************************************************)
EXTENDS Integers, Sequences, FiniteSets, TLC

VARIABLES
    pc,              \* position of the running handler
    mode,            \* which entry point / path is running
    question,        \* the question handed to the entry point
    messages,        \* the conversation list of the session
    tool_results,    \* tool results collected by the loop (never cleared)
    tool_call_count, \* loop counter of _natural_language_query_with_tools
    response,        \* the last backend response
    pending,         \* parsed tool calls of this turn not yet executed
    round_results,   \* tool_results local to _exec_tool_response
    sent,            \* the conversation passed to the last backend call
    ret,             \* value returned to the caller
    backendCalls,    \* number of ai_manager.generate_response calls made
    toolExecs,       \* tool calls executed so far, in order
    dbExecs,         \* strings passed to db_manager.execute_query, in order
    dbCalls,         \* number of calls of any db_manager method
    lastCalls,       \* the tool_calls list of the previous backend response
    sql_in,          \* argument of strip_markdown_sql
    sql_out,         \* its result
    reply,           \* what the entry point (MCP tool, HTTP route) answers
    configured,      \* config.AI_PROVIDER.lower()
    reachable,       \* providers whose key is set / whose server answers
    mgr,             \* "new", "constructed" or "failed": the AIProviderManager
    current_provider,\* ai_manager.current_provider
    usedProviders,   \* providers the session's backend calls were sent to
    tools,           \* the tools argument of the last generate_response call
    request,         \* the HTTP request the provider adapter posted for it
    reply_error,     \* the error field of the MCP tool's answer
    provider_name    \* the argument of the last switch_provider call

vars == <<pc, mode, question, messages, tool_results, tool_call_count,
          response, pending, round_results, sent, ret, backendCalls,
          toolExecs, dbExecs, dbCalls, lastCalls, sql_in, sql_out, reply,
          configured, reachable, mgr, current_provider, usedProviders,
          tools, request, reply_error, provider_name>>

\* the state of the global ai_manager and of its surroundings
mgrVars == <<configured, reachable, mgr, current_provider>>

\* the variables the tool-mode session never touches
otherVars == <<sql_in, sql_out, reply, mgrVars>>

-----------------------------------------------------------------------------
(* Bounds of the model *)

\* turns in which the mocked backend may pick any tool-call list; afterwards
\* it repeats its previous list (or answers with content or an error)
MaxVaried == 2
\* pieces concatenated to build the texts handed to the pure functions
MaxSegs == 4
\* characters of a question
MaxQLen == 5

-----------------------------------------------------------------------------
(* Strings *)

IsSpace(t) == t \in {"NL", "SP"}

RECURSIVE LStrip(_)
LStrip(s) == IF s # <<>> /\ IsSpace(Head(s)) THEN LStrip(Tail(s)) ELSE s

RECURSIVE RStrip(_)
RStrip(s) ==
    IF s # <<>> /\ IsSpace(s[Len(s)]) THEN RStrip(SubSeq(s, 1, Len(s) - 1)) ELSE s

\* str.strip()
Strip(s) == RStrip(LStrip(s))

\* s.startswith(p)
StartsWith(s, p) == Len(s) >= Len(p) /\ SubSeq(s, 1, Len(p)) = p

\* x in s, for a one-token x
Contains(s, t) == \E i \in 1..Len(s) : s[i] = t

\* str.upper() of one token
UpperTok(t) == CASE t = "select" -> "SELECT"
                 [] t = "from"   -> "FROM"
                 [] t = "sql"    -> "SQL"
                 [] t = "mysql"  -> "MYSQL"
                 [] t = "json"   -> "JSON"
                 [] t = "hello"  -> "HELLO"
                 [] t = "orders;" -> "ORDERS;"
                 [] OTHER -> t

Upper(s) == [i \in 1..Len(s) |-> UpperTok(s[i])]

Min(S) == CHOOSE x \in S : \A y \in S : x <= y
Max(S) == CHOOSE x \in S : \A y \in S : x >= y


-----------------------------------------------------------------------------
(* Scratchpad removal: re.sub(r'<think>.*?</think>', '', content, DOTALL).strip() *)

\* index of the first "</think>" after position i, or 0
NextClose(s, i) ==
    LET C == {j \in (i + 1)..Len(s) : s[j] = "</think>"}
    IN  IF C = {} THEN 0 ELSE Min(C)

RECURSIVE RemoveThinkBlocks(_)
RemoveThinkBlocks(s) ==
    LET O == {i \in 1..Len(s) : s[i] = "<think>" /\ NextClose(s, i) # 0}
    IN  IF O = {} THEN s
        ELSE LET i == Min(O)
                 j == NextClose(s, i)
             IN  SubSeq(s, 1, i - 1) \o RemoveThinkBlocks(SubSeq(s, j + 1, Len(s)))

\* the guarded form used by the loop and by make_clear_sql
StripThink(content) ==
    IF Contains(content, "<think>") THEN Strip(RemoveThinkBlocks(content))
    ELSE content

-----------------------------------------------------------------------------
(* strip_markdown_sql *)

\* length of the whitespace run of s that starts at position p
RECURSIVE SpaceRun(_, _)
SpaceRun(s, p) == IF p <= Len(s) /\ IsSpace(s[p]) THEN 1 + SpaceRun(s, p + 1) ELSE 0

\* positions e >= b where "\n```" starts
Closers(s, b) == {e \in b..(Len(s) - 1) : s[e] = "NL" /\ s[e + 1] = "FENCE"}

\* the numbers k of whitespace tokens that \s* may take at p so that the rest
\* of  \s*\n(.*?)\n```  matches
FeasibleK(s, p) ==
    {k \in 0..SpaceRun(s, p) :
        /\ p + k <= Len(s)
        /\ s[p + k] = "NL"
        /\ Closers(s, p + k + 1) # {}}

\* re.search of  <prefix>\s*\n(.*?)\n```  with re.DOTALL, where the prefix is
\* the fence followed by the tokens of tag; the result is group(1), or the
\* one-element sequence <<"NOMATCH">> when nothing matches
BlockSearch(s, tag) ==
    LET pre == <<"FENCE">> \o tag
        S == {i \in 1..Len(s) :
                /\ i + Len(pre) - 1 <= Len(s)
                /\ SubSeq(s, i, i + Len(pre) - 1) = pre
                /\ FeasibleK(s, i + Len(pre)) # {}}
    IN  IF S = {} THEN <<"NOMATCH">>
        ELSE LET i == Min(S)
                 p == i + Len(pre)
                 k == Max(FeasibleK(s, p))   \* \s* is greedy
                 b == p + k + 1
                 e == Min(Closers(s, b))     \* (.*?) is lazy
             IN  SubSeq(s, b, e - 1)

\* the first fence after position i, or 0
NextFence(s, i) ==
    LET C == {j \in (i + 1)..Len(s) : s[j] = "FENCE"}
    IN  IF C = {} THEN 0 ELSE Min(C)

\* re.search of  ```(.*?)```  without DOTALL: the dot matches no newline
LineSearch(s) ==
    LET S == {i \in 1..Len(s) :
                /\ s[i] = "FENCE"
                /\ NextFence(s, i) # 0
                /\ \A m \in (i + 1)..(NextFence(s, i) - 1) : s[m] # "NL"}
    IN  IF S = {} THEN <<"NOMATCH">>
        ELSE LET i == Min(S)
             IN  SubSeq(s, i + 1, NextFence(s, i) - 1)

\* a variant of strip_markdown_sql without the search for a sql-tagged block
strip_markdown_sql_untagged_first(sql_query) ==
    IF sql_query = <<>> THEN sql_query
    ELSE IF BlockSearch(sql_query, <<>>) # <<"NOMATCH">>
         THEN Strip(BlockSearch(sql_query, <<>>))
    ELSE IF LineSearch(sql_query) # <<"NOMATCH">>
         THEN Strip(LineSearch(sql_query))
    ELSE Strip(sql_query)

strip_markdown_sql(sql_query) ==
    IF sql_query = <<>> THEN sql_query
    ELSE IF BlockSearch(sql_query, <<"sql">>) # <<"NOMATCH">>
         THEN Strip(BlockSearch(sql_query, <<"sql">>))
    ELSE IF BlockSearch(sql_query, <<>>) # <<"NOMATCH">>
         THEN Strip(BlockSearch(sql_query, <<>>))
    ELSE IF LineSearch(sql_query) # <<"NOMATCH">>
         THEN Strip(LineSearch(sql_query))
    ELSE Strip(sql_query)

-----------------------------------------------------------------------------
(* pretty_format_sql: sqlparse.format(sql, reindent_aligned=True,           *)
(* keyword_case='upper', ...).  Keywords are upper-cased; a FROM that       *)
(* follows other text starts a new line, right-aligned under SELECT.        *)

KeywordUpper(t) == CASE t = "select" -> "SELECT"
                     [] t = "from"   -> "FROM"
                     [] OTHER -> t

IsSplitWord(t) == KeywordUpper(t) = "FROM"

RECURSIVE Reindent(_, _)
Reindent(done, rest) ==
    IF rest = <<>> THEN done
    ELSE IF IsSplitWord(Head(rest)) /\ RStrip(done) # <<>>
         THEN Reindent(RStrip(done) \o <<"NL", "SP", "SP", KeywordUpper(Head(rest))>>,
                       Tail(rest))
         ELSE Reindent(Append(done, KeywordUpper(Head(rest))), Tail(rest))

pretty_format_sql(sql_query) ==
    IF sql_query = <<>> THEN sql_query ELSE Reindent(<<>>, sql_query)

-----------------------------------------------------------------------------
(* Responses of the backend (the dict returned by generate_response) and    *)
(* the Response objects returned to callers                                 *)

\* a backend response: which keys the dict holds, and their values
Resp(hasRole, hasError, err, contentKind, text, tcKind, calls) ==
    [hasRole |-> hasRole, hasError |-> hasError, err |-> err,
     contentKind |-> contentKind, text |-> text,
     tcKind |-> tcKind, tool_calls |-> calls]

NoResponse == Resp(FALSE, FALSE, <<>>, "absent", <<>>, "absent", <<>>)

\* {"error": msg}
ErrorResp(msg) == Resp(FALSE, TRUE, msg, "absent", <<>>, "absent", <<>>)

\* an assistant message with text content and no tool_calls key
ContentResp(text) == Resp(TRUE, FALSE, <<>>, "str", text, "absent", <<>>)

\* an assistant message carrying tool calls; its content is null
ToolResp(calls) == Resp(TRUE, FALSE, <<>>, "null", <<>>, "list", calls)

\* bool(response) of a dict
Truthy(r) == r.hasRole \/ r.hasError \/ r.contentKind # "absent" \/ r.tcKind # "absent"

\* str(response) of a dict without a "content" key
Repr(r) ==
    <<"{">> \o (IF r.hasError THEN <<"error:">> \o r.err ELSE <<>>) \o <<"}">>

\* Response(success=False, error=f"<kind>: {detail}")
Failure(kind, detail) ==
    [kind |-> "response", success |-> FALSE, sql |-> <<>>, rows |-> "none",
     error |-> kind, detail |-> detail]

\* Response(success=True, data={"sql_query": sql, "result": rows})
Success(sql, rows) ==
    [kind |-> "response", success |-> TRUE, sql |-> sql, rows |-> rows,
     error |-> "none", detail |-> <<>>]

\* nothing returned yet
Pending ==
    [kind |-> "pending", success |-> FALSE, sql |-> <<>>, rows |-> "none",
     error |-> "none", detail |-> <<>>]

\* an exception leaving the function
Raised ==
    [kind |-> "raise", success |-> FALSE, sql |-> <<>>, rows |-> "none",
     error |-> "none", detail |-> <<>>]

\* a function that falls off its end returns None
ReturnedNone ==
    [kind |-> "None", success |-> FALSE, sql |-> <<>>, rows |-> "none",
     error |-> "none", detail |-> <<>>]

-----------------------------------------------------------------------------
(* make_clear_sql *)

error_indicators == {"REFUSAL"}

sql_keywords ==
    {"SELECT", "FROM", "WHERE", "INSERT", "UPDATE", "DELETE", "CREATE", "DROP", "ALTER"}

HasIndicator(content) == \E i \in 1..Len(content) : content[i] \in error_indicators

HasKeyword(content) == \E i \in 1..Len(content) : Upper(content)[i] \in sql_keywords

\* the content make_clear_sql works on, after its scratchpad removal
ClearContent(r) ==
    StripThink(IF r.contentKind # "absent" THEN r.text ELSE Repr(r))

\* a variant of make_clear_sql without the test for error_indicators
make_clear_sql_no_indicators(r) ==
    IF ~Truthy(r) THEN Failure("ResponseIsNone", <<>>)
    ELSE IF r.contentKind = "null" THEN Raised
    ELSE LET content == ClearContent(r)
             sql_query == strip_markdown_sql(content)
         IN  IF ~HasKeyword(content) THEN Failure("NoSQLGenerated", content)
             ELSE IF sql_query = <<>> THEN Failure("SQLGenerationFailed", sql_query)
             ELSE Success(pretty_format_sql(sql_query), "none")

\* a variant of make_clear_sql without the test for sql_keywords
make_clear_sql_no_keywords(r) ==
    IF ~Truthy(r) THEN Failure("ResponseIsNone", <<>>)
    ELSE IF r.contentKind = "null" THEN Raised
    ELSE LET content == ClearContent(r)
             sql_query == strip_markdown_sql(content)
         IN  IF HasIndicator(content) THEN Failure("Ambiguous", content)
             ELSE IF sql_query = <<>> THEN Failure("SQLGenerationFailed", sql_query)
             ELSE Success(pretty_format_sql(sql_query), "none")

\* the Response of make_clear_sql; on success rows is still "none".  A null
\* content makes the test  "<think>" in content  raise.  The second half of
\* the test after strip_markdown_sql (a result starting with an error phrase)
\* cannot be met: that phrase is one of error_indicators.
make_clear_sql(r) ==
    IF ~Truthy(r) THEN Failure("ResponseIsNone", <<>>)
    ELSE IF r.contentKind = "null" THEN Raised
    ELSE LET content == ClearContent(r)
             sql_query == strip_markdown_sql(content)
         IN  IF HasIndicator(content) THEN Failure("Ambiguous", content)
             ELSE IF ~HasKeyword(content) THEN Failure("NoSQLGenerated", content)
             ELSE IF sql_query = <<>> THEN Failure("SQLGenerationFailed", sql_query)
             ELSE Success(pretty_format_sql(sql_query), "none")

-----------------------------------------------------------------------------
(* Tools *)

max_tool_calls == 10

available_tools == {"get_table_list", "get_table_schema"}

\* the names of tools_definition, sent to the backend on every turn
tools_definition == {"get_database_info", "get_table_list", "get_table_schema"}

\* one entry of a structured tool_calls array, as the backend sends it:
\* args is "obj" (an object), "objstr" (a string holding an object),
\* "badstr" (a string that is no JSON) or "null"
Call(name, args) == [shape |-> "dict", name |-> name, args |-> args]

\* an entry that is no dict
BadEntry == [shape |-> "other", name |-> "", args |-> "null"]

\* the tool-call lists the mocked backend chooses from
ToolCallLists ==
    { <<Call("get_table_list", "obj")>>,
      <<Call("get_table_schema", "obj")>>,
      <<Call("get_database_info", "obj")>>,
      <<Call("get_table_list", "null"), Call("get_table_schema", "objstr")>>,
      <<Call("get_table_schema", "badstr")>>,
      <<BadEntry, Call("get_table_list", "obj")>> }

\* the backend stamps each call of turn n with an id
Stamp(calls, n) ==
    [i \in 1..Len(calls) |->
        [id |-> <<n, i>>, shape |-> calls[i].shape,
         name |-> calls[i].name, args |-> calls[i].args]]

\* a variant of DecodeArguments that leaves every string undecoded
DecodeArgumentsNever(args) ==
    CASE args = "null" -> "empty"
      [] OTHER -> args

\* json.loads of a string argument; an undecodable string is kept as it is
DecodeArguments(args) ==
    CASE args = "objstr" -> "obj"
      [] args = "null"   -> "empty"
      [] OTHER -> args

\* the structured branch of _parse_tool_calls: an entry that raises is skipped
RECURSIVE ParseStructured(_)
ParseStructured(calls) ==
    IF calls = <<>> THEN <<>>
    ELSE LET c == Head(calls)
         IN  IF c.shape # "dict" THEN ParseStructured(Tail(calls))
             ELSE <<[tool_call_id |-> c.id, name |-> c.name,
                     arguments |-> DecodeArguments(c.args)]>>
                  \o ParseStructured(Tail(calls))

\* the tool_call_id of a call read from free text: None
NoId == <<0, 0>>

\* the values "arguments" has in a JSON text: an object, a string that holds
\* an object, a string that holds no JSON, null
ArgKinds == {"obj", "objstr", "badstr", "null"}

\* json.loads of a text that is expected to be  {"name": n, "arguments": a}
\* or  {"name": n}.  "JSONNAME" stands for  {"name":  written without a
\* break, "NAMEKEY" for  "name":  and "ARGSKEY" for  ,"arguments":  ;
\* whitespace between the tokens is insignificant; ok is FALSE when
\* json.loads raises.  A missing or null "arguments" reads as None.
JsonObject(text) ==
    LET u == SelectSeq(text, LAMBDA t : ~IsSpace(t))
        v == IF u # <<>> /\ u[1] = "JSONNAME" THEN Tail(u)
             ELSE IF Len(u) >= 2 /\ u[1] = "{" /\ u[2] = "NAMEKEY"
                  THEN SubSeq(u, 3, Len(u))
             ELSE <<>>
    IN  IF Len(v) = 2 /\ v[1] \in tools_definition /\ v[2] = "}"
        THEN [ok |-> TRUE, name |-> v[1], arguments |-> "none"]
        ELSE IF /\ Len(v) = 4 /\ v[1] \in tools_definition /\ v[2] = "ARGSKEY"
                /\ v[3] \in ArgKinds /\ v[4] = "}"
        THEN [ok |-> TRUE, name |-> v[1],
              arguments |-> IF v[3] = "null" THEN "none" ELSE v[3]]
        ELSE [ok |-> FALSE, name |-> "", arguments |-> "none"]

\* re.search(r'```json\s*([\s\S]+?)\s*```', content).group(1) for a content
\* whose trimmed text starts with  ```json\n{\n : the text between the
\* opening fence and the next fence, without the whitespace around it;
\* <<"NOMATCH">> when no fence follows
FencedBody(content) ==
    LET s == Strip(content)
        j == NextFence(s, 1)
    IN  IF j = 0 THEN <<"NOMATCH">> ELSE Strip(SubSeq(s, 3, j - 1))

\* the call lines 605-610 and 619-624 append
FreeTextCall(obj) ==
    <<[tool_call_id |-> NoId, name |-> obj.name, arguments |-> obj.arguments]>>

\* whether _parse_tool_calls(r) raises: iterating a null tool_calls,
\* .strip() of a null content, json.loads of a bare text that is no JSON
ParseRaises(r) ==
    /\ Truthy(r)
    /\ \/ r.tcKind = "null"
       \/ r.tcKind = "absent" /\ r.contentKind = "null"
       \/ /\ r.tcKind = "absent" /\ r.contentKind = "str"
          /\ ~StartsWith(Strip(r.text), <<"FENCE", "json", "NL", "{", "NL">>)
          /\ StartsWith(Strip(r.text), <<"JSONNAME">>)
          /\ ~JsonObject(r.text).ok

\* a variant of _parse_tool_calls that reads a call from the content also
\* when the response lists structured calls
_parse_tool_calls_both(r) ==
    IF ~Truthy(r) THEN <<>>
    ELSE (IF r.tcKind = "list" THEN ParseStructured(r.tool_calls) ELSE <<>>)
         \o (IF r.contentKind = "str" /\ StartsWith(Strip(r.text), <<"JSONNAME">>)
                 /\ JsonObject(r.text).ok
              THEN FreeTextCall(JsonObject(r.text)) ELSE <<>>)

\* the list _parse_tool_calls(r) returns when it does not raise
_parse_tool_calls(r) ==
    IF ~Truthy(r) THEN <<>>
    ELSE IF r.tcKind = "list" THEN ParseStructured(r.tool_calls)
    ELSE IF r.tcKind # "absent" \/ r.contentKind # "str" THEN <<>>
    ELSE IF StartsWith(Strip(r.text), <<"FENCE", "json", "NL", "{", "NL">>)
         THEN IF FencedBody(r.text) # <<"NOMATCH">> /\ JsonObject(FencedBody(r.text)).ok
              THEN FreeTextCall(JsonObject(FencedBody(r.text)))
              ELSE <<>>
    ELSE IF StartsWith(Strip(r.text), <<"JSONNAME">>) /\ JsonObject(r.text).ok
         THEN FreeTextCall(JsonObject(r.text))
    ELSE <<>>

\* what  await functoin_to_call(**func_args)  can do: a string cannot be
\* unpacked, get_table_schema needs table_name, and the database may fail
ToolOutcomes(call) ==
    IF call.arguments \in {"badstr", "objstr", "none"} THEN {"raise"}
    ELSE IF call.arguments = "empty" /\ call.name = "get_table_schema" THEN {"raise"}
    ELSE {"ok", "raise"}

\* a variant of ToolResult that reports every call as successful
ToolResultAlwaysOk(call, outcome) ==
    [tool_call_id |-> call.tool_call_id, name |-> call.name,
     content |-> "json_result"]

\* the entry _exec_tool_response appends for an executed call
ToolResult(call, outcome) ==
    [tool_call_id |-> call.tool_call_id, name |-> call.name,
     content |-> IF outcome = "ok" THEN "json_result" ELSE "json_error"]

\* a variant of ToolMessages that sends the system prompt again with the results
ToolMessagesWithPrompt(results) ==
    <<[role |-> "system", tool_call_id |-> <<0, 0>>, name |-> "",
       content |-> "system_prompt"]>>
    \o [i \in 1..Len(results) |->
        [role |-> "tool", tool_call_id |-> results[i].tool_call_id,
         name |-> results[i].name, content |-> results[i].content]]

\* the messages the loop appends for the collected tool results
ToolMessages(results) ==
    [i \in 1..Len(results) |->
        [role |-> "tool", tool_call_id |-> results[i].tool_call_id,
         name |-> results[i].name, content |-> results[i].content]]

InitialMessages ==
    << [role |-> "system", tool_call_id |-> <<0, 0>>, name |-> "",
        content |-> "system_prompt"],
       [role |-> "user", tool_call_id |-> <<0, 0>>, name |-> "",
        content |-> "question"] >>

-----------------------------------------------------------------------------
(* Inputs of the session model *)

\* error texts of a failed backend call: a timeout, a refused connection, a
\* non-200 status with its body
BackendErrors ==
    { <<"timeout">>, <<"connect_failed">>, <<"http_status", "SP", "from">> }

CleanSelectFrom == <<"SELECT", "SP", "*", "SP", "FROM", "SP", "orders;">>
CleanSelectOne == <<"SELECT", "SP", "1;">>
FencedSelectOne == <<"FENCE", "sql", "NL", "SELECT", "SP", "1;", "NL", "FENCE">>
BareJsonCall == <<"JSONNAME", "get_table_list">>
FencedJsonCall ==
    <<"FENCE", "json", "NL", "{", "NL", "get_table_list", "NL", "FENCE">>

\* the final contents the mocked backend chooses from
FinalContents ==
    { CleanSelectFrom, CleanSelectOne, FencedSelectOne,
      <<"REFUSAL">>, <<"REFUSAL", "SP", "select", "SP", "1;">>,
      <<"hello">>, <<>>,
      <<"<think>", "hello", "</think>", "NL", "SELECT", "SP", "1;">>,
      BareJsonCall, <<"SP">> \o FencedJsonCall }

\* responses that carry neither an error nor a usable tool_calls list
FinalResponses ==
    {ContentResp(c) : c \in FinalContents}
    \cup { NoResponse,
           Resp(TRUE, FALSE, <<>>, "null", <<>>, "absent", <<>>),
           Resp(TRUE, FALSE, <<>>, "str", CleanSelectOne, "list", <<>>) }

\* a tool_calls value that is truthy and no list
OddResponse == Resp(TRUE, FALSE, <<>>, "null", <<>>, "other", <<>>)

-----------------------------------------------------------------------------
(* _finalize_sql_response *)

\* lines 218-221: the loop removes the scratchpad from a string content
LoopStripThink(r) ==
    IF r.contentKind = "str" THEN [r EXCEPT !.text = StripThink(r.text)] ELSE r

\* the test of line 298 on content.strip()
IsCallPrefix(content) ==
    \/ StartsWith(Strip(content), <<"FENCE", "json", "NL", "{", "NL">>)
    \/ StartsWith(Strip(content), <<"JSONNAME">>)

\* what _finalize_sql_response returns for response r when the database
\* answers execute_query with dbOutcome ("ok" or "raise")
FinalizeReturn(r, dbOutcome) ==
    IF ~Truthy(r) THEN Failure("ResponseIsNone", <<>>)
    ELSE IF r.contentKind = "null" THEN Raised
    ELSE IF IsCallPrefix(r.text) THEN ReturnedNone
    ELSE LET result_sql == make_clear_sql(r)
         IN  IF ~result_sql.success THEN result_sql
             ELSE IF dbOutcome = "ok" THEN Success(result_sql.sql, "rows")
             ELSE Failure("SQLExecution", <<>>)

\* the strings _finalize_sql_response passes to db_manager.execute_query
FinalizeExecutes(r) ==
    IF Truthy(r) /\ r.contentKind # "null" /\ ~IsCallPrefix(r.text)
       /\ make_clear_sql(r).success
    THEN <<make_clear_sql(r).sql>> ELSE <<>>

\* the except clause of _natural_language_query_with_tools
CatchToolMode(v) == IF v.kind = "raise" THEN Failure("ToolModeException", <<>>) ELSE v

-----------------------------------------------------------------------------
(* The tool-mode session: natural_language_query_work(question, True),      *)
(* that is _natural_language_query_with_tools                               *)

\* the tools argument of generate_response: None, or a list of tool names
NoTools == [given |-> FALSE, names |-> {}]
ToolsList(names) == [given |-> TRUE, names |-> names]

\* a variant of the test  if tools:  that tests  tools is not None
ToolsGiven(t) == t.given

\* the test  if tools:  of the adapters
ToolsTruthy(t) == t.given /\ t.names # {}

\* no request posted
NoRequest ==
    [posted |-> FALSE, provider |-> "none", endpoint |-> "none", hasTools |-> FALSE,
     tools |-> {}, tool_choice |-> "absent", body |-> "none"]

\* ai_provider.py 127-144: the parts of the conversation Ollama's prompt is built from
PromptParts(msgs) == SelectSeq(msgs, LAMBDA m : m.role \in {"system", "user"})

\* the JSON the adapter of provider p posts for generate_response(msgs, t);
\* client tells whether the Groq client was created
BuildRequest(p, msgs, t, client) ==
    IF p = "groq"
    THEN IF ~client THEN NoRequest
         ELSE [posted |-> TRUE, provider |-> p,
               endpoint |-> "/openai/v1/chat/completions",
               hasTools |-> ToolsTruthy(t),
               tools |-> IF ToolsTruthy(t) THEN t.names ELSE {},
               tool_choice |-> IF ToolsTruthy(t) THEN "auto" ELSE "absent",
               body |-> "messages"]
    ELSE IF p = "ollama"
    THEN [posted |-> TRUE, provider |-> p,
          endpoint |-> IF ToolsTruthy(t) THEN "/api/chat" ELSE "/api/generate",
          hasTools |-> ToolsTruthy(t),
          tools |-> IF ToolsTruthy(t) THEN t.names ELSE {},
          tool_choice |-> "absent",
          body |-> IF ~ToolsTruthy(t) /\ PromptParts(msgs) # <<>>
                   THEN "prompt" ELSE "messages"]
    ELSE IF p = "lmstudio"
    THEN [posted |-> TRUE, provider |-> p,
          endpoint |-> "/chat/completions",
          hasTools |-> ToolsTruthy(t),
          tools |-> IF ToolsTruthy(t) THEN t.names ELSE {},
          tool_choice |-> IF ToolsTruthy(t) THEN "auto" ELSE "absent",
          body |-> "messages"]
    ELSE NoRequest

\* self.client of GroqProvider: created by constructor() when the key is set
GroqClient == configured = "groq" /\ "groq" \in reachable /\ mgr # "new"

\* the global ai_manager after a construction that found the configured
\* provider available (config.py line 71: the default is ollama)
ManagerReady ==
    /\ configured = "ollama"
    /\ reachable = {"ollama"}
    /\ mgr = "constructed"
    /\ current_provider = "ollama"

SampleQuestion == <<"a", "a", "a", "a", "a">>

Init ==
    /\ pc = "idle"
    /\ mode = "none"
    /\ question = SampleQuestion
    /\ messages = <<>>
    /\ tool_results = <<>>
    /\ tool_call_count = 0
    /\ response = NoResponse
    /\ pending = <<>>
    /\ round_results = <<>>
    /\ sent = <<>>
    /\ ret = Pending
    /\ backendCalls = 0
    /\ toolExecs = <<>>
    /\ dbExecs = <<>>
    /\ dbCalls = 0
    /\ lastCalls = <<>>
    /\ sql_in = <<>>
    /\ sql_out = <<>>
    /\ reply = "none"
    /\ ManagerReady
    /\ usedProviders = {}
    /\ tools = NoTools
    /\ request = NoRequest
    /\ reply_error = "none"
    /\ provider_name = "none"

\* a variant of the loop condition that allows two more rounds
LoopContinuesTwoMore(count) == count < max_tool_calls + 2

\* the while condition of line 189
LoopContinues(count) == count < max_tool_calls

\* a variant of the round counter that counts every round twice
NextCountTwice(count) == count + 2

\* line 260
NextCount(count) == count + 1

\* which branch of lines 223-274 a response takes
Branch(r) ==
    IF r.hasError THEN "error"
    ELSE IF r.tcKind \in {"absent", "null"} \/ (r.tcKind = "list" /\ r.tool_calls = <<>>)
         THEN "final"
    ELSE IF r.tcKind = "list" THEN "tools"
    ELSE "bad"

\* lines 169-186: the session is created
StartToolSession ==
    /\ pc = "idle"
    /\ mode' = "tools"
    /\ messages' = InitialMessages
    /\ tool_results' = <<>>
    /\ tool_call_count' = 0
    /\ pc' = "loop"
    /\ UNCHANGED <<question, response, pending, round_results, sent, ret,
                   backendCalls, toolExecs, dbExecs, dbCalls, lastCalls,
                   otherVars, usedProviders, tools, request, reply_error, provider_name>>

\* lines 189-212: the collected tool results are appended and the backend is called
CallBackend ==
    /\ pc = "loop"
    /\ mode = "tools"
    /\ LoopContinues(tool_call_count)
    /\ messages' = messages \o ToolMessages(tool_results)
    /\ sent' = messages'
    /\ backendCalls' = backendCalls + 1
    /\ usedProviders' = usedProviders \cup {current_provider}
    /\ tools' = ToolsList(tools_definition)
    /\ request' = BuildRequest(current_provider, messages', tools', GroqClient)
    /\ pc' = "await"
    /\ UNCHANGED <<mode, question, tool_results, tool_call_count, response,
                   pending, round_results, ret, toolExecs, dbExecs, dbCalls,
                   lastCalls, otherVars, reply_error, provider_name>>

\* lines 275-279: the loop ends on its bound
LimitExceeded ==
    /\ pc = "loop"
    /\ mode = "tools"
    /\ ~LoopContinues(tool_call_count)
    /\ ret' = Failure("ToolCallLimit", <<>>)
    /\ pc' = "done"
    /\ UNCHANGED <<mode, question, messages, tool_results, tool_call_count,
                   response, pending, round_results, sent, backendCalls,
                   toolExecs, dbExecs, dbCalls, lastCalls, otherVars, usedProviders, tools, request, reply_error, provider_name>>

\* a variant of ReplyError in which the error does not end the session
ReplyErrorGoesOn ==
    /\ pc = "await"
    /\ mode = "tools"
    /\ \E e \in BackendErrors : response' = LoopStripThink(ErrorResp(e))
    /\ pc' = "loop"
    /\ UNCHANGED <<mode, question, messages, tool_results, tool_call_count,
                   pending, round_results, sent, ret, backendCalls, toolExecs,
                   dbExecs, dbCalls, lastCalls, otherVars, usedProviders, tools, request, reply_error, provider_name>>

\* lines 223-228: the backend call failed
ReplyError ==
    /\ pc = "await"
    /\ mode = "tools"
    /\ \E e \in BackendErrors :
        LET r == LoopStripThink(ErrorResp(e))
        IN  /\ Branch(r) = "error"
            /\ response' = r
            /\ ret' = Failure("AIResponseFailed", r.err)
    /\ pc' = "done"
    /\ UNCHANGED <<mode, question, messages, tool_results, tool_call_count,
                   pending, round_results, sent, backendCalls, toolExecs,
                   dbExecs, dbCalls, lastCalls, otherVars, usedProviders, tools, request, reply_error, provider_name>>

\* lines 238-246: no tool call, the response is the final answer; the
\* backend's response is one of candidates
ReplyFinalFrom(candidates) ==
    /\ pc = "await"
    /\ mode = "tools"
    /\ \E r0 \in candidates, dbOutcome \in {"ok", "raise"} :
        LET r == LoopStripThink(r0)
        IN  /\ Branch(r) = "final"
            /\ response' = r
            /\ ret' = CatchToolMode(FinalizeReturn(r, dbOutcome))
            /\ dbExecs' = dbExecs \o FinalizeExecutes(r)
            /\ dbCalls' = dbCalls + Len(FinalizeExecutes(r))
    /\ pc' = "done"
    /\ UNCHANGED <<mode, question, messages, tool_results, tool_call_count,
                   pending, round_results, sent, backendCalls, toolExecs,
                   lastCalls, otherVars, usedProviders, tools, request, reply_error, provider_name>>

ReplyFinal == ReplyFinalFrom(FinalResponses)

\* lines 261-267: tool_calls is no list
ReplyOdd ==
    /\ pc = "await"
    /\ mode = "tools"
    /\ Branch(OddResponse) = "bad"
    /\ response' = OddResponse
    /\ ret' = Failure("BadToolCalls", <<>>)
    /\ pc' = "done"
    /\ UNCHANGED <<mode, question, messages, tool_results, tool_call_count,
                   pending, round_results, sent, backendCalls, toolExecs,
                   dbExecs, dbCalls, lastCalls, otherVars, usedProviders, tools, request, reply_error, provider_name>>

\* lines 248-250 and 329-341: the response lists tool calls, which are parsed
ReplyToolCalls ==
    /\ pc = "await"
    /\ mode = "tools"
    /\ \E l \in ToolCallLists :
        LET r == LoopStripThink(ToolResp(Stamp(l, backendCalls)))
        IN  /\ backendCalls <= MaxVaried \/ l = lastCalls
            /\ Branch(r) = "tools"
            /\ response' = r
            /\ lastCalls' = l
            /\ pending' = _parse_tool_calls(r)
    /\ round_results' = <<>>
    /\ pc' = "tools"
    /\ UNCHANGED <<mode, question, messages, tool_results, tool_call_count,
                   sent, ret, backendCalls, toolExecs, dbExecs, dbCalls,
                   otherVars, usedProviders, tools, request, reply_error, provider_name>>

\* the outcomes the mocked collaborators produce: past the varied turns a
\* tool fails only when its arguments force it to
EnvOutcomes(call) ==
    IF backendCalls <= MaxVaried \/ "ok" \notin ToolOutcomes(call)
    THEN ToolOutcomes(call) ELSE {"ok"}

\* a variant of ExecTool that takes the listed calls from the end
ExecToolLastFirst ==
    /\ pc = "tools"
    /\ pending # <<>>
    /\ LET call == pending[Len(pending)]
       IN  IF call.name \in available_tools
           THEN \E outcome \in EnvOutcomes(call) :
                   /\ round_results' = Append(round_results, ToolResult(call, outcome))
                   /\ toolExecs' = Append(toolExecs,
                                           [id |-> call.tool_call_id, outcome |-> outcome])
                   /\ dbCalls' = dbCalls + 1
           ELSE UNCHANGED <<round_results, toolExecs, dbCalls>>
    /\ pending' = SubSeq(pending, 1, Len(pending) - 1)
    /\ UNCHANGED <<pc, mode, question, messages, tool_results, tool_call_count,
                   response, sent, ret, backendCalls, dbExecs, lastCalls,
                   otherVars, usedProviders, tools, request, reply_error, provider_name>>

\* lines 343-371: one pass of the for loop of _exec_tool_response
ExecTool ==
    /\ pc = "tools"
    /\ pending # <<>>
    /\ LET call == Head(pending)
       IN  IF call.name \in available_tools
           THEN \E outcome \in EnvOutcomes(call) :
                   /\ round_results' = Append(round_results, ToolResult(call, outcome))
                   /\ toolExecs' = Append(toolExecs,
                                           [id |-> call.tool_call_id, outcome |-> outcome])
                   /\ dbCalls' = dbCalls + 1
           ELSE UNCHANGED <<round_results, toolExecs, dbCalls>>
    /\ pending' = Tail(pending)
    /\ UNCHANGED <<pc, mode, question, messages, tool_results, tool_call_count,
                   response, sent, ret, backendCalls, dbExecs, lastCalls,
                   otherVars, usedProviders, tools, request, reply_error, provider_name>>

\* lines 251-260: the results are collected and the round is counted; the
\* test  "error" in result  is a membership test on a list of dicts and
\* never holds
EndToolRound ==
    /\ pc = "tools"
    /\ pending = <<>>
    /\ tool_results' = tool_results \o round_results
    /\ tool_call_count' = NextCount(tool_call_count)
    /\ pc' = "loop"
    /\ UNCHANGED <<mode, question, messages, response, pending, round_results,
                   sent, ret, backendCalls, toolExecs, dbExecs, dbCalls,
                   lastCalls, otherVars, usedProviders, tools, request, reply_error, provider_name>>

Next ==
    \/ StartToolSession
    \/ CallBackend
    \/ LimitExceeded
    \/ ReplyError
    \/ ReplyFinal
    \/ ReplyOdd
    \/ ReplyToolCalls
    \/ ExecTool
    \/ EndToolRound

Spec == Init /\ [][Next]_vars

\* every backend call and every tool call returns: the adapters set request
\* timeouts, and nothing else suspends the session
FairSpec == Spec /\ WF_vars(Next)

-----------------------------------------------------------------------------
(* The first answer of a tool-mode session, over all bounded texts          *)

\* concatenations of at most n pieces
RECURSIVE Concats(_, _)
Concats(pieces, n) ==
    IF n = 0 THEN {<<>>}
    ELSE LET shorter == Concats(pieces, n - 1)
         IN  shorter \cup {t \o p : t \in shorter, p \in pieces}

FinalPieces ==
    { <<"REFUSAL">>, <<"hello">>, CleanSelectOne, <<"select">>, <<"from">>,
      <<"<think>">>, <<"</think>">>, <<"JSONNAME">>,
      <<"FENCE", "json", "NL", "{", "NL">>,
      <<"FENCE", "sql", "NL">>, <<"NL", "FENCE">>, <<"SP">> }

FinalTexts == Concats(FinalPieces, MaxSegs)

\* the session has made its first backend call
FinalizeInit ==
    /\ pc = "await"
    /\ mode = "tools"
    /\ question = SampleQuestion
    /\ messages = InitialMessages
    /\ tool_results = <<>>
    /\ tool_call_count = 0
    /\ response = NoResponse
    /\ pending = <<>>
    /\ round_results = <<>>
    /\ sent = InitialMessages
    /\ ret = Pending
    /\ backendCalls = 1
    /\ toolExecs = <<>>
    /\ dbExecs = <<>>
    /\ dbCalls = 0
    /\ lastCalls = <<>>
    /\ sql_in = <<>>
    /\ sql_out = <<>>
    /\ reply = "none"
    /\ ManagerReady
    /\ usedProviders = {"ollama"}
    /\ tools = NoTools
    /\ request = NoRequest
    /\ reply_error = "none"
    /\ provider_name = "none"

ReplyFinalText == ReplyFinalFrom({ContentResp(c) : c \in FinalTexts})

FinalizeNext == ReplyFinalText

FinalizeSpec == FinalizeInit /\ [][FinalizeNext]_vars

-----------------------------------------------------------------------------
(* strip_markdown_sql as a function of its argument                         *)

StripPieces ==
    { <<"FENCE", "sql", "NL">>, <<"FENCE", "NL">>, <<"FENCE", "mysql", "NL">>,
      <<"FENCE">>, <<"NL", "FENCE">>, <<"NL">>, <<"SP">>, <<"sql">>,
      CleanSelectOne, <<"hello">> }

StripTexts == Concats(StripPieces, MaxSegs)

\* a markdown block: opening fence with a language tag or none, body, closing fence
FenceBlock(tag, body) == <<"FENCE">> \o tag \o <<"NL">> \o body \o <<"NL", "FENCE">>

\* a text made of two blocks on consecutive lines
TwoFences(t1, b1, t2, b2) == FenceBlock(t1, b1) \o <<"NL">> \o FenceBlock(t2, b2)

FenceTags == {<<>>, <<"sql">>}

FenceBodies == {CleanSelectOne, CleanSelectFrom, <<"hello">>}

TwoFenceTexts ==
    {TwoFences(t1, b1, t2, b2) : t1 \in FenceTags, b1 \in FenceBodies,
                                 t2 \in FenceTags, b2 \in FenceBodies}

StripInit ==
    /\ pc = "strip"
    /\ mode = "strip"
    /\ question = <<>>
    /\ messages = <<>>
    /\ tool_results = <<>>
    /\ tool_call_count = 0
    /\ response = NoResponse
    /\ pending = <<>>
    /\ round_results = <<>>
    /\ sent = <<>>
    /\ ret = Pending
    /\ backendCalls = 0
    /\ toolExecs = <<>>
    /\ dbExecs = <<>>
    /\ dbCalls = 0
    /\ lastCalls = <<>>
    /\ sql_in \in StripTexts \cup TwoFenceTexts
    /\ sql_out = <<"UNSET">>
    /\ reply = "none"
    /\ ManagerReady
    /\ usedProviders = {}
    /\ tools = NoTools
    /\ request = NoRequest
    /\ reply_error = "none"
    /\ provider_name = "none"

\* sql_query = strip_markdown_sql(content)
StripCall ==
    /\ pc = "strip"
    /\ sql_out' = strip_markdown_sql(sql_in)
    /\ pc' = "stripped"
    /\ UNCHANGED <<mode, question, messages, tool_results, tool_call_count,
                   response, pending, round_results, sent, ret, backendCalls,
                   toolExecs, dbExecs, dbCalls, lastCalls, sql_in, reply,
                   mgrVars, usedProviders, tools, request, reply_error, provider_name>>

\* strip_markdown_sql applied to its own result: sql_in becomes the argument
\* of this second call
StripAgain ==
    /\ pc = "stripped"
    /\ sql_in' = sql_out
    /\ sql_out' = strip_markdown_sql(sql_out)
    /\ pc' = "restripped"
    /\ UNCHANGED <<mode, question, messages, tool_results, tool_call_count,
                   response, pending, round_results, sent, ret, backendCalls,
                   toolExecs, dbExecs, dbCalls, lastCalls, reply,
                   mgrVars, usedProviders, tools, request, reply_error, provider_name>>

StripNext ==
    \/ StripCall
    \/ StripAgain

StripSpec == StripInit /\ [][StripNext]_vars

-----------------------------------------------------------------------------
(* The legacy path: natural_language_query_work(question, False), that is   *)
(* _natural_language_query_legacy                                           *)

\* the except clause of _natural_language_query_legacy
CatchLegacy(v) == IF v.kind = "raise" THEN Failure("LegacyException", <<>>) ELSE v

\* what the schema lookup of get_table_list_and_schema meets:
\*   "info_error"  get_database_info answers {"error": ...}; the Response that
\*                 comes back has no data, and reading it raises
\*   "list_raise"  get_table_list raises
\*   "no_schemas"  no table schema is found; building the error text raises
\*   "ok"          at least one schema is found
SchemaLookups == {"info_error", "list_raise", "no_schemas", "ok"}

\* db_manager calls made by that lookup
LookupCalls(lookup) ==
    CASE lookup = "info_error" -> 1
      [] lookup = "list_raise" -> 2
      [] lookup = "no_schemas" -> 2
      [] OTHER -> 3

\* responses of a backend call without tools
LegacyResponses == FinalResponses \cup {ErrorResp(e) : e \in BackendErrors}

\* lines 419-452: the schema is looked up and the backend is called once
LegacyStart ==
    /\ pc = "legacy_start"
    /\ \E lookup \in SchemaLookups :
        /\ dbCalls' = dbCalls + LookupCalls(lookup)
        /\ IF lookup = "ok"
           THEN /\ messages' = InitialMessages
                /\ sent' = InitialMessages
                /\ backendCalls' = backendCalls + 1
                /\ usedProviders' = usedProviders \cup {current_provider}
                /\ tools' = NoTools
                /\ request' = BuildRequest(current_provider, messages', tools', GroqClient)
                /\ pc' = "legacy_await"
                /\ ret' = ret
           ELSE /\ ret' = CatchLegacy(Raised)
                /\ pc' = "legacy_return"
                /\ UNCHANGED <<messages, sent, backendCalls, usedProviders, tools, request, reply_error, provider_name>>
    /\ UNCHANGED <<mode, question, tool_results, tool_call_count, response,
                   pending, round_results, toolExecs, dbExecs, lastCalls,
                   otherVars, reply_error, provider_name>>

\* what lines 458-481 return for response r
LegacyReturn(r, dbOutcome) ==
    LET result_sql == make_clear_sql(r)
    IN  IF ~result_sql.success THEN CatchLegacy(result_sql)
        ELSE IF dbOutcome = "ok" THEN Success(result_sql.sql, "rows")
        ELSE Failure("SQLExecution", <<>>)

\* the strings lines 458-481 pass to db_manager.execute_query
LegacyExecutes(r) ==
    IF make_clear_sql(r).success THEN <<make_clear_sql(r).sql>> ELSE <<>>

\* lines 452-481: the single response is cleaned and executed
LegacyReply ==
    /\ pc = "legacy_await"
    /\ \E r \in LegacyResponses, dbOutcome \in {"ok", "raise"} :
        /\ response' = r
        /\ ret' = LegacyReturn(r, dbOutcome)
        /\ dbExecs' = dbExecs \o LegacyExecutes(r)
        /\ dbCalls' = dbCalls + Len(LegacyExecutes(r))
    /\ pc' = "legacy_return"
    /\ UNCHANGED <<mode, question, messages, tool_results, tool_call_count,
                   pending, round_results, sent, backendCalls, toolExecs,
                   lastCalls, otherVars, usedProviders, tools, request, reply_error, provider_name>>

-----------------------------------------------------------------------------
(* The entry points: the MCP tool natural_language_query of app_mcp_server  *)
(* and the route POST /database/natural-query of src/server                 *)

\* a question is a sequence of characters: "d" a digit, "a" a letter, "SP"
QuestionChars == {"d", "a", "SP"}

RECURSIVE SeqsUpTo(_, _)
SeqsUpTo(S, n) ==
    IF n = 0 THEN {<<>>}
    ELSE LET shorter == SeqsUpTo(S, n - 1)
         IN  shorter \cup {Append(q, c) : q \in {x \in shorter : Len(x) = n - 1}, c \in S}

Questions == SeqsUpTo(QuestionChars, MaxQLen)

\* str.isdigit()
IsDigit(q) == q # <<>> /\ \A i \in 1..Len(q) : q[i] = "d"

MinQuestionLen == 5

\* a variant of the guard without the isdigit() test
RejectedByLengthOnly(q) == q = <<>> \/ Len(Strip(q)) < MinQuestionLen

\* the guard of both entry points:  not question, then
\* question.isdigit() or len(question.strip()) < 5
Rejected(q) == q = <<>> \/ IsDigit(q) \/ Len(Strip(q)) < MinQuestionLen

EntryInit ==
    /\ pc = "idle"
    /\ mode = "none"
    /\ question \in Questions
    /\ messages = <<>>
    /\ tool_results = <<>>
    /\ tool_call_count = 0
    /\ response = NoResponse
    /\ pending = <<>>
    /\ round_results = <<>>
    /\ sent = <<>>
    /\ ret = Pending
    /\ backendCalls = 0
    /\ toolExecs = <<>>
    /\ dbExecs = <<>>
    /\ dbCalls = 0
    /\ lastCalls = <<>>
    /\ sql_in = <<>>
    /\ sql_out = <<>>
    /\ reply = "none"
    /\ ManagerReady
    /\ usedProviders = {}
    /\ tools = NoTools
    /\ request = NoRequest
    /\ reply_error = "none"
    /\ provider_name = "none"

\* mcp_server.py lines 165-172: the guard, then the worker in legacy mode
McpQuery ==
    /\ pc = "idle"
    /\ mode' = "mcp"
    /\ IF Rejected(question)
       THEN reply' = "failed" /\ reply_error' = "ValueError" /\ pc' = "done"
       ELSE reply' = reply /\ reply_error' = reply_error /\ pc' = "legacy_start"
    /\ UNCHANGED <<question, messages, tool_results, tool_call_count, response,
                   pending, round_results, sent, ret, backendCalls, toolExecs,
                   dbExecs, dbCalls, lastCalls, sql_in, sql_out,
                   mgrVars, usedProviders, tools, request, provider_name>>

\* the "error" field of the tool's answer for the worker's Response r: the
\* function reads response.data only; a failed Response has data None, so
\* len() raises TypeError and the except clause answers str(e) of that
McpError(r) == IF r.success THEN "none" ELSE "TypeError"

\* mcp_server.py lines 172-183: the worker's Response becomes the tool's
\* answer; a Response without data makes len() raise
McpReturn ==
    /\ pc = "legacy_return"
    /\ mode = "mcp"
    /\ reply' = IF ret.success THEN "success" ELSE "failed"
    /\ reply_error' = McpError(ret)
    /\ pc' = "done"
    /\ UNCHANGED <<mode, question, messages, tool_results, tool_call_count,
                   response, pending, round_results, sent, ret, backendCalls,
                   toolExecs, dbExecs, dbCalls, lastCalls, sql_in, sql_out,
                   mgrVars, usedProviders, tools, request, provider_name>>


\* http_server.py lines 181-186: the guard of the route
HttpQuery ==
    /\ pc = "idle"
    /\ mode' = "http"
    /\ IF Rejected(question)
       THEN reply' = "http_400" /\ pc' = "done"
       ELSE reply' = reply /\ pc' = "http_start"
    /\ UNCHANGED <<question, messages, tool_results, tool_call_count, response,
                   pending, round_results, sent, ret, backendCalls, toolExecs,
                   dbExecs, dbCalls, lastCalls, sql_in, sql_out,
                   mgrVars, usedProviders, tools, request, reply_error, provider_name>>

\* http_server.py lines 188-259: the schema is read and the backend is called
\* with one prompt; tables is the number of user tables
HttpStart ==
    /\ pc = "http_start"
    /\ \E info \in {"error", "ok"}, tables \in 0..1 :
        IF info = "error"
        THEN /\ dbCalls' = dbCalls + 1
             /\ reply' = "http_500"
             /\ pc' = "done"
             /\ UNCHANGED backendCalls
        ELSE /\ dbCalls' = dbCalls + 1 + tables
             /\ backendCalls' = backendCalls + 1
             /\ pc' = "http_await"
             /\ UNCHANGED reply
    /\ UNCHANGED <<mode, question, messages, tool_results, tool_call_count,
                   response, pending, round_results, sent, ret, toolExecs,
                   dbExecs, lastCalls, sql_in, sql_out,
                   mgrVars, usedProviders, tools, request, reply_error, provider_name>>

\* the answers of the backend of src/server: a string
HttpAnswers ==
    { <<>>, CleanSelectOne, CleanSelectFrom, FencedSelectOne,
      <<"FENCE", "mysql", "NL", "select", "SP", "1;", "NL", "FENCE">>,
      <<"hello">>, <<"timeout">>, <<"SELECT", "SP", "1;", "NL", "NL", "hello">> }

\* lines 269-283: a leading fence, its language tag and a trailing fence go
HttpUnfence(text) ==
    LET s0 == Strip(text)
    IN  IF ~StartsWith(s0, <<"FENCE">>) THEN s0
        ELSE LET s1 == Tail(s0)
                 s2 == IF StartsWith(s1, <<"sql">>) \/ StartsWith(s1, <<"mysql">>)
                       THEN Tail(s1) ELSE s1
                 s3 == IF s2 # <<>> /\ s2[Len(s2)] = "FENCE"
                       THEN SubSeq(s2, 1, Len(s2) - 1) ELSE s2
             IN  Strip(s3)

\* line 292, re.sub(r'\n\s*\n', '\n', ...): a whitespace run from one newline
\* to its last newline becomes one newline
RECURSIVE CollapseBlank(_)
CollapseBlank(s) ==
    IF s = <<>> THEN s
    ELSE LET run == SpaceRun(s, 1)
             nls == {j \in 2..run : s[j] = "NL"}
         IN  IF s[1] = "NL" /\ nls # {}
             THEN <<"NL">> \o CollapseBlank(SubSeq(s, Max(nls) + 1, Len(s)))
             ELSE <<s[1]>> \o CollapseBlank(Tail(s))

\* a token that ends with a semicolon
EndsStatement(t) == t \in {"1;", "orders;"}

\* lines 297-298: the text up to the first semicolon
FirstStatement(s) ==
    LET E == {i \in 1..Len(s) : EndsStatement(s[i])}
    IN  IF E = {} THEN s ELSE SubSeq(s, 1, Min(E))

\* lines 301-306: tokens that hold one of error_keywords
HttpErrorWords == {"timeout", "connect_failed", "http_status", "error:"}

\* lines 269-298; the two line-removing substitutions of lines 288 and 290
\* remove lines that start with # or hold one of four Korean words, and no
\* token of the model does
HttpClean(text) == FirstStatement(Strip(CollapseBlank(HttpUnfence(text))))

\* lines 313-314: the keywords of the route, looked for in the lower-cased
\* text; the tokens of the model hold no "join", "order by" or "group by"
HttpHasKeyword(s) ==
    \E i \in 1..Len(s) :
        Upper(s)[i] \in {"SELECT", "INSERT", "UPDATE", "DELETE", "FROM", "WHERE"}

\* the strings lines 262-341 pass to db_manager.execute_query
HttpExecutes(text) ==
    LET sql_query == HttpClean(text)
    IN  IF text # <<>>
           /\ ~(\E i \in 1..Len(sql_query) : sql_query[i] \in HttpErrorWords)
           /\ HttpHasKeyword(sql_query)
        THEN <<pretty_format_sql(sql_query)>> ELSE <<>>

\* what lines 262-356 answer
HttpReturn(text, dbOutcome) ==
    IF HttpExecutes(text) # <<>> /\ dbOutcome = "ok" THEN "response_success"
    ELSE "response_failure"

\* http_server.py lines 259-356
HttpReply ==
    /\ pc = "http_await"
    /\ \E text \in HttpAnswers, dbOutcome \in {"ok", "raise"} :
        /\ reply' = HttpReturn(text, dbOutcome)
        /\ dbExecs' = dbExecs \o HttpExecutes(text)
        /\ dbCalls' = dbCalls + Len(HttpExecutes(text))
    /\ pc' = "done"
    /\ UNCHANGED <<mode, question, messages, tool_results, tool_call_count,
                   response, pending, round_results, sent, ret, backendCalls,
                   toolExecs, lastCalls, sql_in, sql_out,
                   mgrVars, usedProviders, tools, request, reply_error, provider_name>>

EntryNext ==
    \/ McpQuery
    \/ LegacyStart
    \/ LegacyReply
    \/ McpReturn
    \/ HttpQuery
    \/ HttpStart
    \/ HttpReply

EntrySpec == EntryInit /\ [][EntryNext]_vars

-----------------------------------------------------------------------------
(* AIProviderManager: the global ai_manager of app_mcp_server and of server *)

\* self.providers, in the order of the dict; mode names the package
ProviderOrder(package) ==
    IF package = "app_mcp_server" THEN <<"groq", "ollama", "lmstudio">>
    ELSE <<"groq", "ollama", "google">>

ProviderNames(package) ==
    {ProviderOrder(package)[i] : i \in 1..Len(ProviderOrder(package))}

\* provider.is_available().  In app_mcp_server the Groq client is created by
\* constructor(), which the manager calls on the configured provider only;
\* in server every __init__ creates its client.
is_available(package, config, env, p) ==
    /\ p \in env
    /\ (package = "app_mcp_server" /\ p = "groq") => config = "groq"

\* _switch_to_available_provider: the first available provider of the dict,
\* or the current one when there is none (an error is logged)
_switch_to_available_provider(package, config, env, current) ==
    LET order == ProviderOrder(package)
        A == {i \in 1..Len(order) : is_available(package, config, env, order[i])}
    IN  IF A = {} THEN current ELSE order[Min(A)]

ConfigNames == {"groq", "ollama", "lmstudio", "google", "unknown"}

ManagerInit ==
    /\ pc = "manager"
    /\ mode \in {"app_mcp_server", "server"}
    /\ question = <<>>
    /\ messages = <<>>
    /\ tool_results = <<>>
    /\ tool_call_count = 0
    /\ response = NoResponse
    /\ pending = <<>>
    /\ round_results = <<>>
    /\ sent = <<>>
    /\ ret = Pending
    /\ backendCalls = 0
    /\ toolExecs = <<>>
    /\ dbExecs = <<>>
    /\ dbCalls = 0
    /\ lastCalls = <<>>
    /\ sql_in = <<>>
    /\ sql_out = <<>>
    /\ reply = "none"
    /\ configured \in ConfigNames
    /\ reachable \in SUBSET {"groq", "ollama", "lmstudio", "google"}
    /\ mgr = "new"
    /\ current_provider = "unset"
    /\ usedProviders = {}
    /\ tools = NoTools
    /\ request = NoRequest
    /\ reply_error = "none"
    /\ provider_name = "none"

\* AIProviderManager(): __init__ and, in app_mcp_server, constructor().  In
\* server an unknown name makes  self.providers[...]  raise KeyError.
Construct ==
    /\ mgr = "new"
    /\ IF mode = "server" /\ configured \notin ProviderNames(mode)
       THEN /\ mgr' = "failed"
            /\ current_provider' = configured
       ELSE /\ mgr' = "constructed"
            /\ current_provider' =
                  IF /\ configured \in ProviderNames(mode)
                     /\ is_available(mode, configured, reachable, configured)
                  THEN configured
                  ELSE _switch_to_available_provider(mode, configured, reachable,
                                                     configured)
    /\ UNCHANGED <<pc, mode, question, messages, tool_results, tool_call_count,
                   response, pending, round_results, sent, ret, backendCalls,
                   toolExecs, dbExecs, dbCalls, lastCalls, sql_in, sql_out,
                   reply, configured, reachable, usedProviders, tools, request, reply_error, provider_name>>

\* a variant of Lower that keeps the name as it was given
LowerKeepsCase(name) == name

\* provider_name.lower() of the names of this model
Lower(name) ==
    CASE name = "Ollama" -> "ollama"
      [] name = "GROQ" -> "groq"
      [] name = "LMStudio" -> "lmstudio"
      [] OTHER -> name

\* the names callers pass to switch_provider
SwitchNames == ConfigNames \cup {"Ollama", "GROQ", "LMStudio"}

\* the package whose manager the running handlers use
Package == IF mode = "server" THEN "server" ELSE "app_mcp_server"

\* ai_manager.switch_provider(provider_name), called by anyone who holds the
\* global manager; reply is what it returns
SwitchProviderFrom(names) ==
    /\ mgr = "constructed"
    /\ \E name \in names :
        /\ provider_name' = name
        /\ IF /\ Lower(name) \in ProviderNames(Package)
              /\ is_available(Package, configured, reachable, Lower(name))
           THEN current_provider' = Lower(name) /\ reply' = "True"
           ELSE current_provider' = current_provider /\ reply' = "False"
    /\ UNCHANGED <<pc, mode, question, messages, tool_results, tool_call_count,
                   response, pending, round_results, sent, ret, backendCalls,
                   toolExecs, dbExecs, dbCalls, lastCalls, sql_in, sql_out,
                   configured, reachable, mgr, usedProviders, tools, request, reply_error>>

SwitchProvider == SwitchProviderFrom(SwitchNames)

ManagerNext ==
    \/ Construct
    \/ SwitchProvider

ManagerSpec == ManagerInit /\ [][ManagerNext]_vars

-----------------------------------------------------------------------------
(* A tool-mode session while other coroutines use the global ai_manager     *)

\* the session of Init, with a second provider that answers available
SharedInit ==
    /\ pc = "idle"
    /\ mode = "none"
    /\ question = SampleQuestion
    /\ messages = <<>>
    /\ tool_results = <<>>
    /\ tool_call_count = 0
    /\ response = NoResponse
    /\ pending = <<>>
    /\ round_results = <<>>
    /\ sent = <<>>
    /\ ret = Pending
    /\ backendCalls = 0
    /\ toolExecs = <<>>
    /\ dbExecs = <<>>
    /\ dbCalls = 0
    /\ lastCalls = <<>>
    /\ sql_in = <<>>
    /\ sql_out = <<>>
    /\ reply = "none"
    /\ configured = "ollama"
    /\ reachable = {"ollama", "lmstudio"}
    /\ mgr = "constructed"
    /\ current_provider = "ollama"
    /\ usedProviders = {}
    /\ tools = NoTools
    /\ request = NoRequest
    /\ reply_error = "none"
    /\ provider_name = "none"

\* while the session is suspended in its backend call the event loop runs
\* other coroutines, which may call switch_provider
SwitchWhileAwaiting ==
    pc = "await" /\ SwitchProviderFrom({"ollama", "lmstudio", "unknown"})

SharedNext ==
    \/ StartToolSession
    \/ CallBackend
    \/ LimitExceeded
    \/ ReplyError
    \/ ReplyFinal
    \/ ReplyOdd
    \/ ReplyToolCalls
    \/ ExecTool
    \/ EndToolRound
    \/ SwitchWhileAwaiting

SharedSpec == SharedInit /\ [][SharedNext]_vars

-----------------------------------------------------------------------------
(* A tool-mode session whose caller cancels the task                        *)

\* asyncio.CancelledError leaving the function: it derives from
\* BaseException, which no  except Exception  clause of the worker or of the
\* providers catches
CancelledError ==
    [kind |-> "raise", success |-> FALSE, sql |-> <<>>, rows |-> "none",
     error |-> "CancelledError", detail |-> <<>>]

\* the caller cancels the task while the session is suspended in
\* await ai_manager.generate_response(...), lines 209-212; the tools of
\* lines 17-21 contain no await and give cancellation no point to arrive
Cancel ==
    /\ pc = "await"
    /\ mode = "tools"
    /\ reply' = "cancel_requested"
    /\ ret' = CancelledError
    /\ pc' = "done"
    /\ UNCHANGED <<mode, question, messages, tool_results, tool_call_count,
                   response, pending, round_results, sent, backendCalls,
                   toolExecs, dbExecs, dbCalls, lastCalls, sql_in, sql_out,
                   mgrVars, usedProviders, tools, request, reply_error, provider_name>>

CancelNext ==
    \/ StartToolSession
    \/ CallBackend
    \/ LimitExceeded
    \/ ReplyError
    \/ ReplyFinal
    \/ ReplyOdd
    \/ ReplyToolCalls
    \/ ExecTool
    \/ EndToolRound
    \/ Cancel

CancelSpec == Init /\ [][CancelNext]_vars

-----------------------------------------------------------------------------
(* _parse_tool_calls as a function of the backend's response                *)

\* a structured tool_calls array with one call
Structured(n, a) == ToolResp(Stamp(<<Call(n, a)>>, 1))

\* the text of  "arguments": a  inside a JSON object; "absent" leaves it out
ArgsText(a) == IF a = "absent" THEN <<>> ELSE <<"ARGSKEY", a>>

\* bare JSON, as written by json.dumps:  {"name": n, "arguments": a}
BareText(n, a) == <<"JSONNAME", n>> \o ArgsText(a) \o <<"}">>

\* fenced JSON written over several lines:  ```json\n{\n  "name": n, ...
FencedText(n, a) ==
    <<"FENCE", "json", "NL", "{", "NL", "SP", "NAMEKEY", n>>
    \o (IF a = "absent" THEN <<>> ELSE <<"NL", "SP">> \o ArgsText(a))
    \o <<"NL", "}", "NL", "FENCE">>

\* fenced JSON written on one line:  ```json\n{"name": n, ...}\n```
CompactFencedText(n, a) ==
    <<"FENCE", "json", "NL">> \o BareText(n, a) \o <<"NL", "FENCE">>

\* a response with both a content and a tool_calls value
BothResp(text, calls) == Resp(TRUE, FALSE, <<>>, "str", text, "list", calls)

TextArgs == ArgKinds \cup {"absent"}

ParseInputs ==
    {Structured(n, a) : n \in tools_definition, a \in ArgKinds}
    \cup {ToolResp(Stamp(l, 1)) : l \in ToolCallLists}
    \cup {ContentResp(BareText(n, a)) : n \in tools_definition, a \in TextArgs}
    \cup {ContentResp(FencedText(n, a)) : n \in tools_definition, a \in TextArgs}
    \cup {ContentResp(CompactFencedText(n, a)) : n \in tools_definition, a \in {"obj"}}
    \cup {ContentResp(<<"NL">> \o BareText(n, "obj") \o <<"NL">>) : n \in tools_definition}
    \cup {ContentResp(BareText(n, "obj") \o <<"SP", "hello">>) : n \in tools_definition}
    \cup {ContentResp(FencedText(n, "obj") \o <<"SP", "hello">>) : n \in tools_definition}
    \cup {BothResp(t, Stamp(<<Call(n, a)>>, 1)) :
            t \in {BareText("get_table_list", "obj"), FencedText("get_table_list", "obj")},
            n \in tools_definition, a \in {"obj", "objstr"}}
    \cup {BothResp(BareText(n, "obj"), <<>>) : n \in tools_definition}
    \cup { NoResponse, ErrorResp(<<"timeout">>), ContentResp(CleanSelectOne),
           ContentResp(<<"FENCE", "json", "NL", "{", "NL", "NAMEKEY", "get_table_list">>),
           Resp(TRUE, FALSE, <<>>, "null", <<>>, "absent", <<>>),
           Resp(TRUE, FALSE, <<>>, "str", CleanSelectOne, "null", <<>>) }

ParseInit ==
    /\ pc = "parse"
    /\ mode = "parse"
    /\ question = <<>>
    /\ messages = <<>>
    /\ tool_results = <<>>
    /\ tool_call_count = 0
    /\ response \in ParseInputs
    /\ pending = <<>>
    /\ round_results = <<>>
    /\ sent = <<>>
    /\ ret = Pending
    /\ backendCalls = 0
    /\ toolExecs = <<>>
    /\ dbExecs = <<>>
    /\ dbCalls = 0
    /\ lastCalls = <<>>
    /\ sql_in = <<>>
    /\ sql_out = <<>>
    /\ reply = "none"
    /\ ManagerReady
    /\ usedProviders = {}
    /\ tools = NoTools
    /\ request = NoRequest
    /\ reply_error = "none"
    /\ provider_name = "none"

\* parsed_tool_calls = _parse_tool_calls(response)
ParseCall ==
    /\ pc = "parse"
    /\ IF ParseRaises(response)
       THEN pending' = <<>> /\ ret' = Raised
       ELSE pending' = _parse_tool_calls(response) /\ ret' = ret
    /\ pc' = "parsed"
    /\ UNCHANGED <<mode, question, messages, tool_results, tool_call_count,
                   response, round_results, sent, backendCalls, toolExecs,
                   dbExecs, dbCalls, lastCalls, sql_in, sql_out, reply,
                   mgrVars, usedProviders, tools, request, reply_error, provider_name>>

ParseNext == ParseCall

ParseSpec == ParseInit /\ [][ParseNext]_vars

-----------------------------------------------------------------------------
(* generate_response of the provider adapters of app_mcp_server             *)

\* conversations handed to generate_response
RequestConversations ==
    { <<>>, InitialMessages, <<InitialMessages[2]>>,
      InitialMessages \o ToolMessages(<<ToolResult(
          [tool_call_id |-> <<1, 1>>, name |-> "get_table_list", arguments |-> "obj"],
          "ok")>>),
      ToolMessages(<<ToolResult(
          [tool_call_id |-> <<1, 1>>, name |-> "get_table_list", arguments |-> "obj"],
          "raise")>>) }

\* tools arguments: None, the empty list, one tool, the advertised tools
RequestTools ==
    { NoTools, ToolsList({}), ToolsList({"get_table_list"}), ToolsList(tools_definition) }

RequestInit ==
    /\ pc = "request"
    /\ mode = "app_mcp_server"
    /\ question = <<>>
    /\ messages \in RequestConversations
    /\ tool_results = <<>>
    /\ tool_call_count = 0
    /\ response = NoResponse
    /\ pending = <<>>
    /\ round_results = <<>>
    /\ sent = <<>>
    /\ ret = Pending
    /\ backendCalls = 0
    /\ toolExecs = <<>>
    /\ dbExecs = <<>>
    /\ dbCalls = 0
    /\ lastCalls = <<>>
    /\ sql_in = <<>>
    /\ sql_out = <<>>
    /\ reply = "none"
    /\ configured \in {"groq", "ollama", "lmstudio"}
    /\ reachable \in {{"groq", "ollama", "lmstudio"}, {"ollama", "lmstudio"}}
    /\ mgr = "constructed"
    /\ current_provider \in ProviderNames("app_mcp_server")
    /\ is_available("app_mcp_server", configured, reachable, current_provider)
          \/ (current_provider = configured /\ configured \notin reachable)
    /\ usedProviders = {}
    /\ tools \in RequestTools
    /\ request = NoRequest
    /\ reply_error = "none"
    /\ provider_name = "none"

\* ai_manager.generate_response(messages, tools): the current provider's
\* adapter builds and posts its request
GenerateResponse ==
    /\ pc = "request"
    /\ request' = BuildRequest(current_provider, messages, tools, GroqClient)
    /\ sent' = messages
    /\ backendCalls' = backendCalls + 1
    /\ usedProviders' = usedProviders \cup {current_provider}
    /\ pc' = "requested"
    /\ UNCHANGED <<mode, question, messages, tool_results, tool_call_count,
                   response, pending, round_results, ret, toolExecs, dbExecs,
                   dbCalls, lastCalls, otherVars, tools, reply_error, provider_name>>

RequestNext == GenerateResponse

RequestSpec == RequestInit /\ [][RequestNext]_vars

-----------------------------------------------------------------------------
(* _run_agentic_query of src/server/ai_worker.py                            *)

\* line 111
agentic_max_tool_calls == 5

\* backend calls after which the mocked backend of this section stops
\* asking for tools
MaxAgenticCalls == 8

\* lines 203-245 leave tool_call_count as it is: no statement of the loop
\* assigns it
AgenticNextCount(count) == count

\* the tools of src/server/ai_worker.py 23-26
agentic_available_tools == {"get_table_list", "get_table_schema"}

\* lines 216-225: what executing the call can do; arguments that are no dict
\* make  func_args.get  raise
AgenticToolOutcomes(c) ==
    IF c.name = "get_table_schema" /\ c.args # "obj" THEN {"raise"}
    ELSE {"ok", "raise"}

\* lines 142-196: the final answer
AgenticFinal(r, dbOutcome) ==
    LET sql_query == IF r.contentKind = "str" THEN r.text ELSE <<>>
    IN  IF sql_query = <<>> THEN Failure("EmptyResponse", <<>>)
        ELSE IF HasIndicator(sql_query) THEN Failure("Ambiguous", sql_query)
        ELSE IF ~HasKeyword(sql_query) THEN Failure("NoSQLGenerated", sql_query)
        ELSE IF dbOutcome = "ok" THEN Success(strip_markdown_sql(sql_query), "rows")
        ELSE Failure("SQLExecution", <<>>)

\* the strings lines 142-196 pass to db_manager.execute_query
AgenticExecutes(r) ==
    IF r.contentKind = "str" /\ r.text # <<>> /\ ~HasIndicator(r.text) /\ HasKeyword(r.text)
    THEN <<strip_markdown_sql(r.text)>> ELSE <<>>

AgenticInit ==
    /\ pc = "agentic_start"
    /\ mode = "server"
    /\ question = SampleQuestion
    /\ messages = <<>>
    /\ tool_results = <<>>
    /\ tool_call_count = 0
    /\ response = NoResponse
    /\ pending = <<>>
    /\ round_results = <<>>
    /\ sent = <<>>
    /\ ret = Pending
    /\ backendCalls = 0
    /\ toolExecs = <<>>
    /\ dbExecs = <<>>
    /\ dbCalls = 0
    /\ lastCalls = <<>>
    /\ sql_in = <<>>
    /\ sql_out = <<>>
    /\ reply = "none"
    /\ configured = "ollama"
    /\ reachable = {"ollama"}
    /\ mgr = "constructed"
    /\ current_provider = "ollama"
    /\ usedProviders = {}
    /\ tools = NoTools
    /\ request = NoRequest
    /\ reply_error = "none"
    /\ provider_name = "none"

\* lines 94-112: the conversation and the counter are set up
AgenticStart ==
    /\ pc = "agentic_start"
    /\ messages' = InitialMessages
    /\ tool_call_count' = 0
    /\ pc' = "agentic_loop"
    /\ UNCHANGED <<mode, question, tool_results, response, pending, round_results,
                   sent, ret, backendCalls, toolExecs, dbExecs, dbCalls,
                   lastCalls, otherVars, usedProviders, tools, request, reply_error, provider_name>>

\* lines 115-118 and 247-250: the while test; the backend is called, or the
\* limit failure is returned
AgenticLoopHead ==
    /\ pc = "agentic_loop"
    /\ IF tool_call_count < agentic_max_tool_calls
       THEN /\ sent' = messages
            /\ backendCalls' = backendCalls + 1
            /\ usedProviders' = usedProviders \cup {current_provider}
            /\ tools' = ToolsList(agentic_available_tools)
            /\ pc' = "agentic_await"
            /\ ret' = ret
       ELSE /\ ret' = Failure("ToolCallLimit", <<>>)
            /\ pc' = "done"
            /\ UNCHANGED <<sent, backendCalls, usedProviders, tools>>
    /\ UNCHANGED <<mode, question, messages, tool_results, tool_call_count,
                   response, pending, round_results, toolExecs, dbExecs, dbCalls,
                   lastCalls, otherVars, request, reply_error, provider_name>>

\* lines 120-125: the backend call failed
AgenticReplyError ==
    /\ pc = "agentic_await"
    /\ \E e \in BackendErrors :
        /\ response' = ErrorResp(e)
        /\ ret' = Failure("AIResponseFailed", e)
    /\ pc' = "done"
    /\ UNCHANGED <<mode, question, messages, tool_results, tool_call_count,
                   pending, round_results, sent, backendCalls, toolExecs,
                   dbExecs, dbCalls, lastCalls, otherVars, usedProviders, tools, request, reply_error, provider_name>>

\* lines 142-196: no tool call, the content is the final answer
AgenticReplyFinal ==
    /\ pc = "agentic_await"
    /\ \E c \in FinalContents, dbOutcome \in {"ok", "raise"} :
        LET r == ContentResp(c)
        IN  /\ response' = r
            /\ ret' = AgenticFinal(r, dbOutcome)
            /\ dbExecs' = dbExecs \o AgenticExecutes(r)
    /\ pc' = "done"
    /\ UNCHANGED <<mode, question, messages, tool_results, tool_call_count,
                   pending, round_results, sent, backendCalls, toolExecs,
                   dbCalls, lastCalls, otherVars, usedProviders, tools, request, reply_error, provider_name>>

\* lines 203-205: the response lists tool calls; an entry that is no dict
\* makes line 205 raise, which the except clause of line 252 reports
AgenticReplyToolCalls ==
    /\ pc = "agentic_await"
    /\ backendCalls < MaxAgenticCalls
    /\ \E l \in ToolCallLists :
        LET r == ToolResp(Stamp(l, backendCalls))
        IN  /\ backendCalls <= MaxVaried \/ l = lastCalls
            /\ response' = r
            /\ lastCalls' = l
            /\ IF \E i \in 1..Len(l) : l[i].shape # "dict"
               THEN /\ pending' = <<>>
                    /\ ret' = Failure("ToolModeException", <<>>)
                    /\ pc' = "done"
               ELSE /\ pending' = r.tool_calls
                    /\ ret' = ret
                    /\ pc' = "agentic_tools"
    /\ UNCHANGED <<mode, question, messages, tool_results, tool_call_count,
                   round_results, sent, backendCalls, toolExecs, dbExecs, dbCalls,
                   otherVars, usedProviders, tools, request, reply_error, provider_name>>

\* lines 207-245: one pass of the for loop; the result is appended to messages
AgenticExecTool ==
    /\ pc = "agentic_tools"
    /\ pending # <<>>
    /\ LET c == Head(pending)
       IN  IF c.name \in agentic_available_tools
           THEN \E outcome \in (IF backendCalls <= MaxVaried
                                THEN AgenticToolOutcomes(c)
                                ELSE {CHOOSE o \in AgenticToolOutcomes(c) : TRUE}) :
                   /\ messages' = Append(messages,
                         [role |-> "tool", tool_call_id |-> NoId, name |-> c.name,
                          content |-> IF outcome = "ok" THEN "json_result"
                                      ELSE "json_error"])
                   /\ toolExecs' = Append(toolExecs, [id |-> c.id, outcome |-> outcome])
                   /\ dbCalls' = dbCalls + 1
           ELSE UNCHANGED <<messages, toolExecs, dbCalls>>
    /\ pending' = Tail(pending)
    /\ UNCHANGED <<pc, mode, question, tool_results, tool_call_count, response,
                   round_results, sent, ret, backendCalls, dbExecs, lastCalls,
                   otherVars, usedProviders, tools, request, reply_error, provider_name>>

\* the end of the for loop: control returns to the while test
AgenticEndRound ==
    /\ pc = "agentic_tools"
    /\ pending = <<>>
    /\ tool_call_count' = AgenticNextCount(tool_call_count)
    /\ pc' = "agentic_loop"
    /\ UNCHANGED <<mode, question, messages, tool_results, response, pending,
                   round_results, sent, ret, backendCalls, toolExecs, dbExecs,
                   dbCalls, lastCalls, otherVars, usedProviders, tools, request, reply_error, provider_name>>

AgenticNext ==
    \/ AgenticStart
    \/ AgenticLoopHead
    \/ AgenticReplyError
    \/ AgenticReplyFinal
    \/ AgenticReplyToolCalls
    \/ AgenticExecTool
    \/ AgenticEndRound

AgenticSpec == AgenticInit /\ [][AgenticNext]_vars

-----------------------------------------------------------------------------
(* POST /database/execute of src/server/http_server.py and validate_query   *)

ExecPieces ==
    { <<"SP">>, <<"SELECT">>, <<"select">>, <<"INSERT">>, <<"DELETE">>,
      <<"1;">>, <<"orders;">> }

\* the statements sent to the route
ExecQueries == Concats(ExecPieces, MaxSegs)

\* query.strip().upper().startswith('SELECT')
IsSelect(query) == StartsWith(Upper(Strip(query)), <<"SELECT">>)

\* what validate_query passes to conn.execute for a query: EXPLAIN of a
\* SELECT, and any other statement as it is
ValidateSends(query) ==
    IF IsSelect(query) THEN <<"EXPLAIN", "SP">> \o query ELSE query

ExecInit ==
    /\ pc = "exec_request"
    /\ mode = "execute"
    /\ question = <<>>
    /\ messages = <<>>
    /\ tool_results = <<>>
    /\ tool_call_count = 0
    /\ response = NoResponse
    /\ pending = <<>>
    /\ round_results = <<>>
    /\ sent = <<>>
    /\ ret = Pending
    /\ backendCalls = 0
    /\ toolExecs = <<>>
    /\ dbExecs = <<>>
    /\ dbCalls = 0
    /\ lastCalls = <<>>
    /\ sql_in \in ExecQueries
    /\ sql_out = <<>>
    /\ reply = "none"
    /\ ManagerReady
    /\ usedProviders = {}
    /\ tools = NoTools
    /\ request = NoRequest
    /\ reply_error = "none"
    /\ provider_name = "none"

\* http_server.py 142-161 with validate_query: an empty query is refused;
\* without an engine validate_query answers False; otherwise it hands
\* ValidateSends(query) to the database and answers whether that raised
ExecValidate ==
    /\ pc = "exec_request"
    /\ IF sql_in = <<>>
       THEN /\ reply' = "http_400"
            /\ pc' = "done"
            /\ UNCHANGED <<dbExecs, dbCalls>>
       ELSE \E connected \in BOOLEAN, outcome \in {"ok", "raise"} :
               IF ~connected
               THEN /\ reply' = "http_400"
                    /\ pc' = "done"
                    /\ UNCHANGED <<dbExecs, dbCalls>>
               ELSE /\ dbExecs' = Append(dbExecs, ValidateSends(sql_in))
                    /\ dbCalls' = dbCalls + 1
                    /\ IF outcome = "ok"
                       THEN reply' = reply /\ pc' = "exec_validated"
                       ELSE reply' = "http_400" /\ pc' = "done"
    /\ UNCHANGED <<mode, question, messages, tool_results, tool_call_count,
                   response, pending, round_results, sent, ret, backendCalls,
                   toolExecs, lastCalls, sql_in, sql_out, mgrVars,
                   usedProviders, tools, request, reply_error, provider_name>>

\* http_server.py 163-176: execute_query for a SELECT, execute_non_query
\* (execute and commit) for any other statement
ExecRun ==
    /\ pc = "exec_validated"
    /\ \E outcome \in {"ok", "raise"} :
        /\ dbExecs' = Append(dbExecs, sql_in)
        /\ dbCalls' = dbCalls + 1
        /\ reply' = IF outcome = "ok" THEN "response_success" ELSE "response_failure"
    /\ pc' = "done"
    /\ UNCHANGED <<mode, question, messages, tool_results, tool_call_count,
                   response, pending, round_results, sent, ret, backendCalls,
                   toolExecs, lastCalls, sql_in, sql_out, mgrVars,
                   usedProviders, tools, request, reply_error, provider_name>>

ExecNext == ExecValidate \/ ExecRun

ExecSpec == ExecInit /\ [][ExecNext]_vars

-----------------------------------------------------------------------------
(* Properties                                                               *)

\* C1: in the tool-mode loop, for every sequence of backend responses, a
\* backend that requests a tool on every turn included, the session makes at
\* most max_tool_calls + 1 backend calls and terminates with a returned
\* result (checked under FairSpec: every call returns).
C1_Terminates ==
    /\ [](backendCalls <= max_tool_calls + 1)
    /\ <>(pc = "done" /\ ret.kind # "pending")

\* a session that has ended after max_tool_calls backend calls
C1_Witness == pc = "done" /\ backendCalls = max_tool_calls /\ ret.kind = "response"

\* C2: when the backend answers every turn with a non-empty tool_calls list,
\* the session ends in the tool-call-limit failure after exactly
\* max_tool_calls tool-executing rounds, and the last backend call is the one
\* that opened the last round.  A session at the bound has no other way out.
C2_LimitAfterExactlyMaxRounds ==
    /\ tool_call_count <= max_tool_calls
    /\ ret.error = "ToolCallLimit" =>
          /\ pc = "done"
          /\ ~ret.success
          /\ tool_call_count = max_tool_calls
          /\ backendCalls = max_tool_calls
          /\ response.tcKind = "list" /\ response.tool_calls # <<>>
    /\ (pc = "done" /\ tool_call_count = max_tool_calls) =>
          ret = Failure("ToolCallLimit", <<>>)
    /\ (pc = "loop" /\ tool_call_count = max_tool_calls) => ~ENABLED CallBackend

\* the session has ended on the limit after tools were executed
C2_Witness ==
    /\ pc = "done"
    /\ ret = Failure("ToolCallLimit", <<>>)
    /\ Len(toolExecs) >= max_tool_calls

\* C3: natural_language_query_work(question, True) returns either a success
\* with the SQL and its rows and no error, or a failure with a non-empty
\* error; never None and never a success that lacks the SQL or the rows.
C3_SuccessOrError ==
    (pc = "done" /\ mode = "tools") =>
        /\ ret.kind = "response"
        /\ \/ ret.success /\ ret.sql # <<>> /\ ret.rows = "rows" /\ ret.error = "none"
           \/ ~ret.success /\ ret.error # "none"

\* C4: a question that is purely numeric or shorter than 5 characters is
\* answered with a failure by both entry points, and neither the backend nor
\* the database is called.
C4_RejectedBeforeAnyCall ==
    (IsDigit(question) \/ Len(question) < 5) =>
        /\ backendCalls = 0
        /\ dbCalls = 0
        /\ dbExecs = <<>>
        /\ mode # "none" => pc = "done" /\ reply \in {"failed", "http_400"}

\* a numeric question of five digits was rejected by the HTTP route
C4_Witness ==
    /\ pc = "done"
    /\ mode = "http"
    /\ IsDigit(question)
    /\ Len(question) >= 5
    /\ reply = "http_400"

\* C5: after any number of tool rounds below the limit, a final content that
\* is the clean statement SELECT * FROM orders; gives a success whose
\* sql_query is that content, and execute_query is called exactly once, with
\* exactly that string.
C5_CleanSqlExecutedAsGiven ==
    (pc = "done" /\ mode = "tools" /\ response = ContentResp(CleanSelectFrom)) =>
        /\ dbExecs = <<CleanSelectFrom>>
        /\ ret.success => ret.sql = CleanSelectFrom

\* C6: a backend call that returns an error ends the session at once in the
\* failure that carries that error; nothing is enabled afterwards, so no
\* backend call, tool execution or SQL execution follows.
C6_BackendErrorIsFatal ==
    response.hasError =>
        /\ pc = "done"
        /\ ret = Failure("AIResponseFailed", response.err)
        /\ response.err \in BackendErrors
        /\ ~ENABLED Next

\* a backend error after a round of tools
C6_Witness ==
    /\ response.hasError
    /\ backendCalls > 1
    /\ toolExecs # <<>>
    /\ ret.error = "AIResponseFailed"

\* C7: an exception raised by a tool becomes a tool result whose content is
\* a JSON object with an error field; the session goes on, and the result is
\* in the conversation sent with the next backend call.
C7_ToolErrorBecomesResult ==
    \A k \in 1..Len(toolExecs) :
        toolExecs[k].outcome = "raise" =>
            /\ \E rr \in {round_results[i] : i \in 1..Len(round_results)}
                         \cup {tool_results[i] : i \in 1..Len(tool_results)} :
                  rr.tool_call_id = toolExecs[k].id /\ rr.content = "json_error"
            /\ backendCalls = toolExecs[k].id[1] =>
                  \/ pc \in {"tools", "loop"}
                  \/ pc = "done" /\ ret = Failure("ToolCallLimit", <<>>)
            /\ backendCalls > toolExecs[k].id[1] =>
                  \E j \in 1..Len(sent) :
                      /\ sent[j].role = "tool"
                      /\ sent[j].tool_call_id = toolExecs[k].id
                      /\ sent[j].content = "json_error"

\* a tool raised and the next backend call has been made
C7_Witness ==
    /\ pc = "await"
    /\ \E k \in 1..Len(toolExecs) :
          toolExecs[k].outcome = "raise" /\ backendCalls > toolExecs[k].id[1]

\* C8: when the final content holds a refusal phrase, make_clear_sql answers
\* the ambiguous-question failure with the text, SQL keywords in the content
\* or not, and the session executes nothing on the database.
C8_RefusalIsAmbiguous ==
    (pc = "done" /\ response.contentKind = "str" /\ HasIndicator(response.text)) =>
        /\ make_clear_sql(response) = Failure("Ambiguous", response.text)
        /\ ~IsCallPrefix(response.text) => ret = Failure("Ambiguous", response.text)
        /\ dbExecs = <<>>

\* a refusal that also holds SQL keywords
C8_Witness ==
    /\ pc = "done"
    /\ HasIndicator(response.text)
    /\ HasKeyword(response.text)
    /\ ret = Failure("Ambiguous", response.text)

\* C9 as stated: when the final content holds none of the nine keywords, in
\* any case, the session ends with the no-SQL-generated failure and
\* execute_query is never called.
C9_NoKeywordIsNoSql ==
    (pc = "done" /\ response.contentKind = "str" /\ ~HasKeyword(response.text)) =>
        /\ ret.error = "NoSQLGenerated"
        /\ dbExecs = <<>>

\* C9: when the final content holds none of the nine keywords, in any case,
\* and no refusal phrase, make_clear_sql answers the no-SQL-generated
\* failure; the session ends with it unless the content starts like a tool
\* call, and execute_query is never called.
C9_NoKeywordNoRefusalIsNoSql ==
    (pc = "done" /\ response.contentKind = "str" /\ ~HasKeyword(response.text)) =>
        /\ ~HasIndicator(response.text) =>
              /\ make_clear_sql(response).error = "NoSQLGenerated"
              /\ ~IsCallPrefix(response.text) => ret.error = "NoSQLGenerated"
        /\ dbExecs = <<>>

\* a content of plain words
C9_Witness ==
    /\ pc = "done"
    /\ response.contentKind = "str"
    /\ response.text = <<"hello">>
    /\ ret.error = "NoSQLGenerated"
    /\ dbExecs = <<>>

\* one markdown fence with language tag tag around SELECT 1;
Fenced(tag) == <<"FENCE">> \o tag \o <<"NL">> \o CleanSelectOne \o <<"NL", "FENCE">>

\* C10: for a content that is one markdown fence, with or without a language
\* tag, around a statement, strip_markdown_sql returns the enclosed statement
\* and no fence.
C10_FenceStripped ==
    \A tag \in {<<>>, <<"sql">>, <<"mysql">>} :
        (pc = "stripped" /\ sql_in = Fenced(tag)) => sql_out = CleanSelectOne

\* C11: strip_markdown_sql is idempotent: applied to its own result it
\* returns that result unchanged.
C11_StripIdempotent == pc = "restripped" => sql_out = sql_in

\* the providers of the package whose is_available() answers True
AvailableNow ==
    {p \in ProviderNames(mode) : is_available(mode, configured, reachable, p)}

\* C12: when the manager is constructed and the configured provider is not
\* available, current_provider is the first available provider in the order
\* of the dict; when none is available the construction fails.
C12_FallbackOrFail ==
    (mgr # "new" /\ reply = "none" /\ configured \notin AvailableNow) =>
        /\ AvailableNow # {} =>
              /\ mgr = "constructed"
              /\ current_provider \in AvailableNow
              /\ \A i, j \in 1..Len(ProviderOrder(mode)) :
                    (ProviderOrder(mode)[j] = current_provider /\ i < j)
                        => ProviderOrder(mode)[i] \notin AvailableNow
        /\ AvailableNow = {} => mgr = "failed"

\* C13: all backend calls of one session go to the same provider, whatever
\* other sessions or switch_provider calls do meanwhile.
C13_OneProviderPerSession == Cardinality(usedProviders) <= 1

\* C14: a session cancelled by its caller while suspended ends at once with
\* a failure result of kind Cancelled returned to the caller.
C14_CancelledIsReturned ==
    reply = "cancel_requested" =>
        /\ pc = "done"
        /\ ret.kind = "response"
        /\ ~ret.success
        /\ ret.error = "Cancelled"

\* C15: a response without structured tool calls whose trimmed content
\* starts with a fenced or bare JSON function-call prefix is not accepted as
\* SQL and does not end the session while the iteration bound is not reached.
C15_CallPrefixKeepsLooping ==
    ( /\ mode = "tools"
      /\ response.contentKind = "str"
      /\ Branch(response) = "final"
      /\ IsCallPrefix(response.text)
      /\ tool_call_count < max_tool_calls ) =>
        /\ pc # "done"
        /\ dbExecs = <<>>

\* the names and arguments of a list of parsed calls
NamesAndArguments(calls) ==
    [i \in 1..Len(calls) |-> [name |-> calls[i].name, arguments |-> calls[i].arguments]]

\* the wire shapes of a call of tool n with an argument object: the structured
\* array (the object itself or its JSON encoding), fenced JSON written over
\* several lines or on one line, and bare JSON
WireShapes(n) ==
    { Structured(n, "obj"), Structured(n, "objstr"),
      ContentResp(FencedText(n, "obj")), ContentResp(CompactFencedText(n, "obj")),
      ContentResp(BareText(n, "obj")) }

\* C16: for every tool name and argument object, _parse_tool_calls returns
\* the same list of name and arguments whether the call arrives in the
\* structured array, as fenced JSON or as bare JSON.
C16_SameCallFromEveryShape ==
    \A n \in tools_definition :
        (pc = "parsed" /\ response \in WireShapes(n)) =>
            /\ ret.kind # "raise"
            /\ NamesAndArguments(pending) = <<[name |-> n, arguments |-> "obj"]>>

\* a call read from fenced JSON written over several lines
C16_Witness ==
    /\ pc = "parsed"
    /\ response = ContentResp(FencedText("get_table_schema", "obj"))
    /\ Len(pending) = 1
    /\ pending[1].tool_call_id = NoId

\* content that the free-text branches would read as a call
LooksLikeCall(r) ==
    /\ r.contentKind = "str"
    /\ \/ JsonObject(r.text).ok
       \/ /\ FencedBody(r.text) # <<"NOMATCH">>
          /\ JsonObject(FencedBody(r.text)).ok

\* C18: when a response has a non-empty structured tool_calls array and also
\* content that looks like a fenced or bare JSON call, _parse_tool_calls
\* returns the array's calls only; the free-text call is not in the list.
C18_StructuredWins ==
    (/\ pc = "parsed"
     /\ response.tcKind = "list"
     /\ response.tool_calls # <<>>
     /\ LooksLikeCall(response)) =>
        /\ ret.kind # "raise"
        /\ Len(pending) = Len(response.tool_calls)
        /\ \A i \in 1..Len(pending) :
              /\ pending[i].tool_call_id = response.tool_calls[i].id
              /\ pending[i].name = response.tool_calls[i].name

\* a structured get_table_schema call next to bare JSON naming get_table_list
C18_Witness ==
    /\ pc = "parsed"
    /\ response = BothResp(BareText("get_table_list", "obj"),
                           Stamp(<<Call("get_table_schema", "obj")>>, 1))
    /\ Len(pending) = 1
    /\ pending[1].name = "get_table_schema"

\* C19: a structured call whose arguments are a string that is not JSON is
\* normalized to a call with an empty argument map, and parsing does not raise.
C19_UndecodableArgumentsBecomeEmpty ==
    \A n \in tools_definition :
        (pc = "parsed" /\ response = Structured(n, "badstr")) =>
            /\ ret.kind # "raise"
            /\ Len(pending) = 1
            /\ pending[1].arguments = "empty"

\* C17: in the tool-mode loop the conversation starts as [system, user] with
\* tool_call_count = 0, every conversation passed to the backend begins with
\* one system message followed by the user question, and no other message of
\* it is a system message.
C17_OneSystemMessage ==
    mode = "tools" =>
        /\ (pc = "loop" /\ backendCalls = 0) =>
              (messages = InitialMessages /\ tool_call_count = 0)
        /\ backendCalls = 1 => sent = InitialMessages
        /\ backendCalls >= 1 =>
              /\ Len(sent) >= 2
              /\ sent[1].role = "system"
              /\ sent[2].role = "user"
              /\ \A i \in 3..Len(sent) : sent[i].role = "tool"

\* a third backend call, whose conversation carries tool messages
C17_Witness ==
    /\ mode = "tools"
    /\ pc = "await"
    /\ backendCalls = 3
    /\ Len(sent) > 2
    /\ sent[1].role = "system"
    /\ sent[Len(sent)].role = "tool"

\* the ids of the calls of a list that name an executable tool, in order
ExecutableIds(calls) ==
    LET e == SelectSeq(calls, LAMBDA c : c.name \in available_tools)
    IN  [i \in 1..Len(e) |-> e[i].tool_call_id]

\* the ids of a list of tool results or tool messages, in order
ResultIds(results) == [i \in 1..Len(results) |-> results[i].tool_call_id]

\* the last n elements of a sequence
LastN(seq, n) == SubSeq(seq, Len(seq) - n + 1, Len(seq))

\* C20: the calls listed by one response are executed one at a time in the
\* listed order, no backend call is made while they are executed, and the
\* next backend call carries their results in that order.
C20_ListedOrder ==
    [][ /\ pc = "tools" => backendCalls' = backendCalls
        /\ (pc = "tools" /\ pending # <<>>) =>
              /\ pending' = Tail(pending)
              /\ Len(toolExecs') <= Len(toolExecs) + 1
              /\ Len(toolExecs') = Len(toolExecs) + 1 =>
                    toolExecs'[Len(toolExecs')].id = Head(pending).tool_call_id
        /\ pc' = "tools" =>
              ResultIds(round_results') \o ExecutableIds(pending')
                  = ExecutableIds(_parse_tool_calls(response'))
        /\ (pc' = "await" /\ mode' = "tools" /\ backendCalls' >= 2) =>
              /\ ResultIds(round_results') = ExecutableIds(_parse_tool_calls(response'))
              /\ Len(sent') >= Len(round_results')
              /\ LastN(sent', Len(round_results')) = ToolMessages(round_results')
      ]_vars

\* the second backend call carries the results of a two-call response
C20_Witness ==
    /\ pc = "await"
    /\ mode = "tools"
    /\ backendCalls = 2
    /\ Len(response.tool_calls) = 2
    /\ Len(round_results) = 2
    /\ ResultIds(LastN(sent, 2)) = <<<<1, 1>>, <<1, 2>>>>

\* C21: for a text with several markdown fences strip_markdown_sql returns
\* the body of the first fence, whichever fences carry the sql tag.
C21_FirstFenceWins ==
    \A t1 \in FenceTags, t2 \in FenceTags, b1 \in FenceBodies, b2 \in FenceBodies :
        (pc = "stripped" /\ sql_in = TwoFences(t1, b1, t2, b2)) => sql_out = b1

\* C21 as the code has it: the first sql-tagged block is returned when there
\* is one, and the first block otherwise.
C21_SqlTaggedFenceWins ==
    \A t1 \in FenceTags, t2 \in FenceTags, b1 \in FenceBodies, b2 \in FenceBodies :
        (pc = "stripped" /\ sql_in = TwoFences(t1, b1, t2, b2)) =>
            sql_out = IF t1 = <<>> /\ t2 = <<"sql">> THEN b2 ELSE b1

\* an untagged block followed by a sql-tagged one: the second body is returned
C21_Witness ==
    /\ pc = "stripped"
    /\ sql_in = TwoFences(<<>>, <<"hello">>, <<"sql">>, CleanSelectOne)
    /\ sql_out = CleanSelectOne

\* C22: a request posted by an adapter of app_mcp_server for an empty or
\* absent tools list has no tools and no tool_choice field, and Ollama's goes
\* to /api/generate; for a non-empty list the request carries the list, and
\* Ollama's goes to /api/chat.
C22_ToolsFieldFollowsToolsList ==
    (pc = "requested" /\ request.posted) =>
        /\ request.provider = current_provider
        /\ (~tools.given \/ tools.names = {}) =>
              /\ ~request.hasTools
              /\ request.tool_choice = "absent"
              /\ request.provider = "ollama" => request.endpoint = "/api/generate"
        /\ (tools.given /\ tools.names # {}) =>
              /\ request.hasTools
              /\ request.tools = tools.names
              /\ request.provider = "ollama" => request.endpoint = "/api/chat"

\* Ollama called with the empty list: /api/generate, no tools field
C22_Witness ==
    /\ pc = "requested"
    /\ current_provider = "ollama"
    /\ tools = ToolsList({})
    /\ request.posted
    /\ request.endpoint = "/api/generate"
    /\ ~request.hasTools

\* C23: in _run_agentic_query every tool-executing round raises
\* tool_call_count by one, and no session makes more than
\* agentic_max_tool_calls rounds.
C23_AgenticRoundsCounted ==
    mode = "server" =>
        /\ pc = "agentic_loop" => tool_call_count = backendCalls
        /\ backendCalls <= agentic_max_tool_calls

\* C24: in the path without tools, when the backend call returns an error
\* response the session ends in failure and nothing is passed to
\* db_manager.execute_query.
C24_LegacyErrorNeverExecuted ==
    (pc = "legacy_return" /\ response.hasError) =>
        /\ ~ret.success
        /\ dbExecs = <<>>

\* the tool-role messages of a conversation
ToolRoleMessages(msgs) == SelectSeq(msgs, LAMBDA m : m.role = "tool")

\* C25: the conversation passed to the backend holds one tool-role message
\* for each tool call executed so far, and no two of them answer the same call.
C25_EachResultOnce ==
    (mode = "tools" /\ pc = "await") =>
        LET t == ToolRoleMessages(sent)
        IN  /\ Len(t) = Len(toolExecs)
            /\ \A i, j \in 1..Len(t) :
                  t[i].tool_call_id = t[j].tool_call_id => i = j

\* C26: a structured call of any tool advertised in tools_definition yields
\* exactly one tool-role message in the conversation of the next backend call.
C26_AdvertisedToolsExecutable ==
    \A n \in tools_definition :
        (/\ mode = "tools"
         /\ pc = "await"
         /\ backendCalls = 2
         /\ response.tcKind = "list"
         /\ Len(response.tool_calls) = 1
         /\ response.tool_calls[1].shape = "dict"
         /\ response.tool_calls[1].name = n) =>
            /\ Len(ToolRoleMessages(sent)) = 1
            /\ ToolRoleMessages(sent)[1].name = n

\* C27: in every conversation passed to the backend each tool-role message
\* comes after an assistant message, the one that carried its tool call.
C27_AssistantBeforeTool ==
    (mode = "tools" /\ backendCalls >= 1) =>
        \A i \in 1..Len(sent) :
            sent[i].role = "tool" =>
                \E j \in 1..(i - 1) : sent[j].role = "assistant"

\* C28: when the worker returns success=False with error text e the MCP
\* tool natural_language_query answers status "failed" with e in its error
\* field, and it answers "success" only when the worker returned success=True.
C28_WorkerErrorHandedOn ==
    (mode = "mcp" /\ pc = "done" /\ ret.kind = "response") =>
        /\ ~ret.success => (reply = "failed" /\ reply_error = ret.error)
        /\ reply = "success" => ret.success

\* the number of times statement q was handed to the database
TimesSent(q) == Cardinality({i \in 1..Len(dbExecs) : dbExecs[i] = q})

\* C29: validate_query never hands the statement itself to the database, and
\* a statement that is no SELECT and that POST /database/execute accepts is
\* handed to the database exactly once.
C29_ValidateDoesNotExecute ==
    mode = "execute" =>
        /\ pc = "exec_validated" => TimesSent(sql_in) = 0
        /\ (pc = "done" /\ reply = "response_success" /\ ~IsSelect(sql_in)) =>
              TimesSent(sql_in) = 1

\* the lower-case spelling of the names passed to switch_provider
InLowerCase ==
    [n \in SwitchNames \cup {"none"} |->
        IF n = "Ollama" THEN "ollama"
        ELSE IF n = "GROQ" THEN "groq"
        ELSE IF n = "LMStudio" THEN "lmstudio"
        ELSE n]

\* C30: a call switch_provider(name) returns True and sets current_provider
\* to the lower-cased name when that provider is registered and available;
\* otherwise it returns False and leaves current_provider as it was.
C30_SwitchOnlyToAvailable ==
    [][ (mgr = "constructed" /\ mgr' = "constructed"
         /\ mode \in {"app_mcp_server", "server"}) =>
          LET lowered == InLowerCase[provider_name']
          IN  IF lowered \in ProviderNames(mode) /\ lowered \in AvailableNow
              THEN reply' = "True" /\ current_provider' = lowered
              ELSE reply' = "False" /\ current_provider' = current_provider
      ]_vars

\* a switch by a name in capitals that succeeded
C30_Witness ==
    /\ mgr = "constructed"
    /\ provider_name = "LMStudio"
    /\ reply = "True"
    /\ current_provider = "lmstudio"

=============================================================================
